---- MODULE Spec2Model ----
(***************************************************************************)
(* Model of the socket session core of Lovebirds                           *)
(* (backend/src/sockets/index.js): connection registry, friendship and     *)
(* block authorization, message persistence with delivery / read state.    *)
(*                                                                         *)
(* Node runs one handler at a time; a handler gives up control only at an  *)
(* await.  Every handler is therefore cut into one action per await: the   *)
(* action named after an await applies the awaited store operation and     *)
(* runs the synchronous code that follows it up to the next await.         *)
(***************************************************************************)
EXTENDS Integers, Sequences, FiniteSets, TLC

\* ---------------------------------------------------------------- bounds
MaxSocks == 2      \* connections ever opened
MaxTasks == 2      \* handlers in flight at the same time
MaxMsgs  == 2      \* messages ever created
MaxTemp  == 2      \* client tempIds 1..MaxTemp
MaxTime  == 2      \* clock values 1..MaxTime
MaxClock == 4      \* sweep intervals counted, 1..MaxClock
MaxDur   == 1      \* incognito durations 1..MaxDur, in sweep intervals
MaxReqs  == 2      \* chat requests ever created

\* ------------------------------------------------------------- constants
\* User ids are strings of hexadecimal digits (Mongo ObjectIds), modelled as
\* sequences of digit values; Sep stands for the character '_'.
Sep == 16
UA == <<1, 2>>
UB == <<2, 1>>
UC == <<1, 1>>
Users == {UA, UB, UC}

Sockets == 1..MaxSocks
Tasks   == 1..MaxTasks
MsgIds  == 1..MaxMsgs
TempIds == 1..MaxTemp
NoSocket == 0
NoUser   == <<>>
NoChat   == <<>>
NoMsg    == [absent |-> TRUE]
RequestIds == 1..MaxReqs
NoRequest == [absent |-> TRUE]
Null     == 0

VARIABLES
  friends,       \* User.friends        : user id -> set of user ids
  blockedUsers,  \* User.blockedUsers   : user id -> set of user ids
  isOnline,      \* User.isOnline       : user id -> BOOLEAN
  msgs,          \* Message collection  : message id -> document or NoMsg
  nextMsgId,     \* next fresh Message _id
  userSockets,   \* the registry Map userId -> socket.id (NoSocket = no entry)
  sockUser,      \* socket.user of each connection
  sockState,     \* "new" | "open" (connection handler running) |
                 \* "ready" (listeners registered) | "closed"
  rooms,         \* socket.join: connection -> set of room names
  task,          \* handlers in flight
  emitted,       \* events the latest step delivered to connections
  now,           \* the clock read by new Date()
  incognitoChats, \* User.incognitoChats : user id -> set of settings
  timers,        \* pending setTimeout callbacks: scheduled deletions and
                 \* typing auto-stops
  sweep,         \* the pass of cleanupExpiredIncognitoChats in flight
  covered,       \* history: the messages that were in a chat while a
                 \* participant's setting for it was enabled and unexpired,
                 \* each with that setting's expiresAt
  typingTimeout, \* socket.typingTimeout : connection -> timer or NoTimer
  chatRequests,  \* ChatRequest collection : request id -> document or NoRequest
  nextRequestId  \* next fresh ChatRequest _id

vars == <<friends, blockedUsers, isOnline, msgs, nextMsgId, userSockets,
          sockUser, sockState, rooms, task, emitted, now,
          incognitoChats, timers, sweep, covered, typingTimeout,
          chatRequests, nextRequestId>>

reqVars == <<chatRequests, nextRequestId>>

incVars == <<incognitoChats, timers, sweep, covered>>

storeVars == <<friends, blockedUsers, isOnline, msgs, nextMsgId>>
userVars  == <<friends, blockedUsers, isOnline>>
connVars  == <<userSockets, sockUser, sockState, rooms>>

\* ------------------------------------------------------ pure functions
\* String comparison of two ids, as Array.prototype.sort compares them.
RECURSIVE LexLess(_, _)
LexLess(x, y) ==
  IF y = <<>> THEN FALSE
  ELSE IF x = <<>> THEN TRUE
  ELSE IF Head(x) # Head(y) THEN Head(x) < Head(y)
  ELSE LexLess(Tail(x), Tail(y))

\* [userA, userB].sort()
SortPair(userA, userB) ==
  IF LexLess(userB, userA) THEN <<userB, userA>> ELSE <<userA, userB>>

\* .join('_')
JoinPair(p) == p[1] \o <<Sep>> \o p[2]

\* getChatId without the sort.
getChatId_Unsorted(userA, userB) == JoinPair(<<userA, userB>>)

getChatId(userA, userB) == JoinPair(SortPair(userA, userB))

\* chatId.split('_')
RECURSIVE SplitFrom(_, _)
SplitFrom(str, cur) ==
  IF str = <<>> THEN <<cur>>
  ELSE IF Head(str) = Sep THEN <<cur>> \o SplitFrom(Tail(str), <<>>)
  ELSE SplitFrom(Tail(str), Append(cur, Head(str)))

Split(str) == SplitFrom(str, <<>>)

\* The membership test reduced to a check of the id's shape.
isUserInChat_ShapeOnly(chatId, userId) == Len(Split(chatId)) = 2

isUserInChat(chatId, userId) ==
  \E i \in 1..Len(Split(chatId)) : Split(chatId)[i] = userId

StartsWith(str, pre) ==
  /\ Len(pre) <= Len(str)
  /\ SubSeq(str, 1, Len(pre)) = pre

EndsWith(str, suf) ==
  /\ Len(suf) <= Len(str)
  /\ SubSeq(str, Len(str) - Len(suf) + 1, Len(str)) = suf

\* The query with the first of its two patterns only.
ChatIdMatchesUser_SuffixOnly(chatId, userId) ==
  EndsWith(chatId, <<Sep>> \o userId)

\* { chatId: /_<userId>$/ } or { chatId: /^<userId>_/ }
ChatIdMatchesUser(chatId, userId) ==
  \/ EndsWith(chatId, <<Sep>> \o userId)
  \/ StartsWith(chatId, userId \o <<Sep>>)

ChatIds == {getChatId(x, y) : x \in Users, y \in Users}

\* areUsersFriends reading the other user's friend list.
areUsersFriends_OtherRecord(userId1, userId2) == userId1 \in friends[userId2]

\* user.friends.some(f => f == userId2)
areUsersFriends(userId1, userId2) == userId2 \in friends[userId1]

\* user.blockedUsers.some(b => b == otherUserId)
isUserBlocked(userId, otherUserId) == otherUserId \in blockedUsers[userId]

\* ------------------------------------------------------------ helpers
IdleTask ==
  [kind |-> "none", pc |-> "idle", sock |-> NoSocket, user |-> NoUser,
   peer |-> NoUser, tempId |-> 0, mid |-> 0, chatId |-> NoChat, at |-> Null,
   blocked |-> FALSE, rsock |-> NoSocket, todo |-> <<>>,
   enabled |-> FALSE, dur |-> 0, doc |-> {}, stale |-> FALSE,
   requestId |-> 0, status |-> ""]

\* No pass of the periodic cleanup is running.
\* socket.typingTimeout holds no timer.
NoTimer == [none |-> TRUE]

IdleSweep ==
  [pc |-> "idle", start |-> Null, last |-> 0, todo |-> <<>>, user |-> NoUser,
   doc |-> {}, chats |-> <<>>, stale |-> {}]

HasFreeTask == \E t \in Tasks : task[t].pc = "idle"
FreeTask == CHOOSE t \in Tasks :
              /\ task[t].pc = "idle"
              /\ \A u \in Tasks : task[u].pc = "idle" => t <= u

Running(t, kind, pc) == task[t].kind = kind /\ task[t].pc = pc

Ev(to, ev, mid, tempId, tag, at) ==
  [to |-> to, ev |-> ev, mid |-> mid, tempId |-> tempId, tag |-> tag, at |-> at,
   list |-> <<>>, user |-> NoUser, chat |-> NoChat]

\* An event whose payload names its chat.
RoomEv(to, room, ev, mid, tempId, tag, at) ==
  [Ev(to, ev, mid, tempId, tag, at) EXCEPT !.chat = room]

\* An event that carries a list of messages.
EvList(to, ev, list) == [Ev(to, ev, 0, 0, "", Null) EXCEPT !.list = list]

\* io.emit('userStatus', {userId, isOnline}): addressed to every connection.
Broadcast(ev, userId, tag) ==
  {[Ev(s, ev, 0, 0, tag, Null) EXCEPT !.user = userId] : s \in Sockets}

\* An emit reaches a connection only while that connection is not closed.
Delivered(evs) == {e \in evs : e.to \in Sockets /\ sockState[e.to] \in {"open", "ready"}}

RoomMembers(room) == {s \in Sockets : room \in rooms[s]}

\* io.emit in the place of io.to(room).emit: every connection is addressed.
ToRoom_All(room, ev, mid, tempId, tag, at) ==
  {RoomEv(s, room, ev, mid, tempId, tag, at) : s \in Sockets}

\* io.to(room).emit(ev, ...)
ToRoom(room, ev, mid, tempId, tag, at) ==
  {RoomEv(s, room, ev, mid, tempId, tag, at) : s \in RoomMembers(room)}

Finish(t) == task' = [task EXCEPT ![t] = IdleTask]
Goto(t, pc) == task' = [task EXCEPT ![t].pc = pc]

\* ------------------------------------------------------------- Init
\* Friendships exist only as the symmetric edges acceptChatRequest stores.
SymmetricFriendSets ==
  {f \in [Users -> SUBSET Users] :
     \A x \in Users : x \notin f[x] /\ \A y \in f[x] : x \in f[y]}

Init ==
  /\ friends \in SymmetricFriendSets
  /\ blockedUsers = [u \in Users |-> {}]
  /\ isOnline = [u \in Users |-> FALSE]
  /\ msgs = [m \in MsgIds |-> NoMsg]
  /\ nextMsgId = 1
  /\ userSockets = [u \in Users |-> NoSocket]
  /\ sockUser = [s \in Sockets |-> NoUser]
  /\ sockState = [s \in Sockets |-> "new"]
  /\ rooms = [s \in Sockets |-> {}]
  /\ task = [t \in Tasks |-> IdleTask]
  /\ emitted = {}
  /\ now = 1
  /\ incognitoChats = [u \in Users |-> {}]
  /\ timers = {}
  /\ sweep = IdleSweep
  /\ covered = {}
  /\ typingTimeout = [s \in Sockets |-> NoTimer]
  /\ chatRequests = [r \in RequestIds |-> NoRequest]
  /\ nextRequestId = 1

\* ------------------------------------------------------------- clock
Tick ==
  /\ now < MaxTime
  /\ now' = now + 1
  /\ emitted' = {}
  /\ UNCHANGED <<reqVars, typingTimeout, incVars, storeVars, connVars, task>>

\* ------------------------------------------------- io.use(auth middleware)
\* The id of a token whose user record does not exist.
Ghost == <<2, 2>>

\* socket.handshake.auth.token: absent, failing jwt.verify, or verified and
\* decoding to an id.
Tokens ==
  {[present |-> FALSE, verifies |-> FALSE, id |-> NoUser],
   [present |-> TRUE, verifies |-> FALSE, id |-> NoUser]}
  \cup {[present |-> TRUE, verifies |-> TRUE, id |-> u] : u \in Users \cup {Ghost}}

\* next(new Error(...)): the connection is refused.
Refuse(s) == sockState' = [sockState EXCEPT ![s] = "refused"]

\* The middleware accepting every token that is present.
Handshake_NoVerify(s, token) ==
  /\ sockState[s] = "new"
  /\ \A r \in Sockets : r < s => sockState[r] # "new"
  /\ emitted' = {}
  /\ IF ~token.present
     THEN /\ Refuse(s)
          /\ UNCHANGED task
     ELSE /\ HasFreeTask
          /\ sockState' = [sockState EXCEPT ![s] = "auth"]
          /\ task' = [task EXCEPT ![FreeTask] =
                        [IdleTask EXCEPT !.kind = "auth", !.pc = "findUser",
                                         !.sock = s,
                                         !.user = IF token.verifies
                                                  THEN token.id ELSE UA]]
  /\ UNCHANGED <<reqVars, typingTimeout, incVars, storeVars, userSockets, sockUser, rooms, now>>

\* A client opens a connection: the token is read and verified and
\* User.findById(decoded.id) is called.
Handshake(s, token) ==
  /\ sockState[s] = "new"
  /\ \A r \in Sockets : r < s => sockState[r] # "new"
  /\ emitted' = {}
  /\ IF ~token.present \/ ~token.verifies
     THEN /\ Refuse(s)
          /\ UNCHANGED task
     ELSE /\ HasFreeTask
          /\ sockState' = [sockState EXCEPT ![s] = "auth"]
          /\ task' = [task EXCEPT ![FreeTask] =
                        [IdleTask EXCEPT !.kind = "auth", !.pc = "findUser",
                                         !.sock = s, !.user = token.id]]
  /\ UNCHANGED <<reqVars, typingTimeout, incVars, storeVars, userSockets, sockUser, rooms, now>>

\* const user = await User.findById(decoded.id): without a user the
\* connection is refused; otherwise socket.user = user; next() and the
\* connection handler binds the registry entry and calls the isOnline update.
AuthFindUser(t) ==
  /\ Running(t, "auth", "findUser")
  /\ emitted' = {}
  /\ LET s == task[t].sock
         u == task[t].user
     IN IF u \notin Users
        THEN /\ Refuse(s)
             /\ Finish(t)
             /\ UNCHANGED <<userSockets, sockUser>>
        ELSE /\ sockUser' = [sockUser EXCEPT ![s] = u]
             /\ sockState' = [sockState EXCEPT ![s] = "open"]
             /\ userSockets' = [userSockets EXCEPT ![u] = s]
             /\ task' = [task EXCEPT ![t] =
                           [IdleTask EXCEPT !.kind = "connection",
                                            !.pc = "online",
                                            !.sock = s, !.user = u]]
  /\ UNCHANGED <<reqVars, typingTimeout, incVars, storeVars, rooms, now>>

\* User.findById rejects: catch (err) next(new Error('Authentication failed')).
AuthThrows(t) ==
  /\ Running(t, "auth", "findUser")
  /\ Refuse(task[t].sock)
  /\ Finish(t)
  /\ emitted' = {}
  /\ UNCHANGED <<reqVars, typingTimeout, incVars, storeVars, userSockets, sockUser, rooms, now>>

\* ------------------------------------------- io.on('connection', ...)
\* Undelivered messages of the chats of userId that userId did not send:
\* Message.find({$or: [chatId regexes], sender: {$ne: userId}, isDelivered: false})
UndeliveredFor(userId) ==
  {m \in MsgIds :
     /\ msgs[m] # NoMsg
     /\ ChatIdMatchesUser(msgs[m].chatId, userId)
     /\ msgs[m].sender # userId
     /\ msgs[m].isDelivered = FALSE}

\* The query result as a list of documents, in _id order.
RECURSIVE DocsOf(_)
DocsOf(S) ==
  IF S = {} THEN <<>>
  ELSE LET m == CHOOSE x \in S : \A y \in S : x <= y
       IN <<[mid |-> m, chatId |-> msgs[m].chatId, sender |-> msgs[m].sender]>>
          \o DocsOf(S \ {m})

\* A client connects with a valid token of user u: the middleware sets
\* socket.user, the connection handler binds the registry entry and starts
\* the isOnline update.
Connect(s, u) ==
  /\ sockState[s] = "new"
  /\ \A r \in Sockets : r < s => sockState[r] # "new"
  /\ HasFreeTask
  /\ sockUser' = [sockUser EXCEPT ![s] = u]
  /\ sockState' = [sockState EXCEPT ![s] = "open"]
  /\ userSockets' = [userSockets EXCEPT ![u] = s]
  /\ task' = [task EXCEPT ![FreeTask] =
                [IdleTask EXCEPT !.kind = "connection", !.pc = "online",
                                 !.sock = s, !.user = u]]
  /\ emitted' = {}
  /\ UNCHANGED <<reqVars, typingTimeout, incVars, storeVars, rooms, now>>

\* await User.findByIdAndUpdate(userId, {isOnline: true}); userStatus goes
\* to every connection; the pending chat requests and the offline-message
\* notification are read next.
ConnOnline(t) ==
  /\ Running(t, "connection", "online")
  /\ isOnline' = [isOnline EXCEPT ![task[t].user] = TRUE]
  /\ Goto(t, "undelivered")
  /\ emitted' = Delivered(Broadcast("userStatus", task[t].user, "online"))
  /\ UNCHANGED <<reqVars, typingTimeout, incVars, friends, blockedUsers, msgs, nextMsgId, connVars, now>>

\* await Message.find({... isDelivered: false})
ConnUndelivered(t) ==
  /\ Running(t, "connection", "undelivered")
  /\ task' = [task EXCEPT ![t].todo = DocsOf(UndeliveredFor(task[t].user)),
                          ![t].pc = "deliver"]
  /\ emitted' = {}
  /\ UNCHANGED <<reqVars, typingTimeout, incVars, storeVars, connVars, now>>

\* The listeners (socket.on) are registered when the connection handler
\* has left its try block.
RegisterListeners(t) ==
  sockState' = [sockState EXCEPT ![task[t].sock] =
                  IF @ = "open" THEN "ready" ELSE @]

\* for (const msg of undeliveredMessages): set the two fields on the
\* document and call msg.save().
ConnDeliver(t) ==
  /\ Running(t, "connection", "deliver")
  /\ IF task[t].todo = <<>>
     THEN /\ RegisterListeners(t)
          /\ Finish(t)
     ELSE /\ LET msg == Head(task[t].todo) IN
             IF isUserInChat(msg.chatId, task[t].user)
             THEN task' = [task EXCEPT ![t].mid = msg.mid,
                                       ![t].chatId = msg.chatId,
                                       ![t].peer = msg.sender,
                                       ![t].todo = Tail(task[t].todo),
                                       ![t].at = now,
                                       ![t].pc = "save"]
             ELSE task' = [task EXCEPT ![t].todo = Tail(task[t].todo)]
          /\ UNCHANGED sockState
  /\ emitted' = {}
  /\ UNCHANGED <<reqVars, typingTimeout, incVars, storeVars, userSockets, sockUser, rooms,
                 now>>

\* await msg.save(), then messageDelivered to the sender's registry entry.
\* save() of a document that is gone throws: the catch ends the pass.
ConnSave(t) ==
  /\ Running(t, "connection", "save")
  /\ LET m == task[t].mid IN
     IF msgs[m] = NoMsg
     THEN /\ RegisterListeners(t)
          /\ Finish(t)
          /\ UNCHANGED msgs /\ emitted' = {}
     ELSE /\ msgs' = [msgs EXCEPT ![m].isDelivered = TRUE,
                                  ![m].deliveredAt = task[t].at]
          /\ emitted' = Delivered(
               {Ev(userSockets[task[t].peer], "messageDelivered", m, 0, "",
                   task[t].at)})
          /\ Goto(t, "deliver")
          /\ UNCHANGED sockState
  /\ UNCHANGED <<reqVars, typingTimeout, incVars, userVars, nextMsgId, userSockets, sockUser, rooms, now>>

\* ------------------------------------------ socket.on('disconnect', ...)
\* The client goes away while the 'disconnect' listener is registered.
Disconnect(s) ==
  /\ sockState[s] = "ready"
  /\ HasFreeTask
  /\ sockState' = [sockState EXCEPT ![s] = "closed"]
  /\ userSockets' = [userSockets EXCEPT ![sockUser[s]] = NoSocket]
  /\ task' = [task EXCEPT ![FreeTask] =
                [IdleTask EXCEPT !.kind = "disconnect", !.pc = "offline",
                                 !.sock = s, !.user = sockUser[s]]]
  /\ emitted' = {}
  /\ UNCHANGED <<reqVars, typingTimeout, incVars, storeVars, sockUser, rooms, now>>

\* await User.findByIdAndUpdate(userId, {isOnline: false, lastSeen});
\* userStatus goes to every connection.
DiscOffline(t) ==
  /\ Running(t, "disconnect", "offline")
  /\ isOnline' = [isOnline EXCEPT ![task[t].user] = FALSE]
  /\ Finish(t)
  /\ emitted' = Delivered(Broadcast("userStatus", task[t].user, "offline"))
  /\ UNCHANGED <<reqVars, typingTimeout, incVars, friends, blockedUsers, msgs, nextMsgId, connVars, now>>

\* The client goes away before the listeners are registered: no handler runs.
Drop(s) ==
  /\ sockState[s] = "open"
  /\ sockState' = [sockState EXCEPT ![s] = "closed"]
  /\ emitted' = {}
  /\ UNCHANGED <<reqVars, typingTimeout, incVars, storeVars, userSockets, sockUser, rooms, task, now>>

\* -------------------------------------- incognito settings (user documents)
\* Time is counted in sweep intervals (setInterval(..., 5 * 60 * 1000)).
SweepEvery == 1
Durations == 1..MaxDur

\* setTimeout keeps a delay of at most 2^31 - 1 ms, which is 7158 whole
\* intervals of 5 minutes; a longer delay, like one below 1 ms, is set to 1 ms.
MaxDelay == 7158
LongDur == MaxDelay + 1

\* The time at which a callback handed to setTimeout with delay
\* expiresAt - new Date() runs.
TimerAt(expiresAt) ==
  IF expiresAt - now < 1 \/ expiresAt - now > MaxDelay THEN now ELSE expiresAt

SettingsOf(doc, chatId) == {x \in doc : x.chatId = chatId}

\* user.incognitoChats.filter(ic => ic.chatId !== chatId)
Without(doc, chatId) == {x \in doc : x.chatId # chatId}

\* History: the messages in a chat for which some user holds a setting that
\* is enabled and unexpired now, each with that setting's expiresAt.
CoveredNow ==
  {c \in [mid : MsgIds, by : 1..(MaxClock + MaxDur) \cup
                              {k + LongDur : k \in 1..MaxClock}] :
     /\ msgs[c.mid] # NoMsg
     /\ now < c.by
     /\ \E u \in Users : \E x \in incognitoChats[u] :
           x.chatId = msgs[c.mid].chatId /\ x.expiresAt = c.by}

\* A save() of user u's document by handler t has bumped the document's
\* version: every other handler holding an earlier copy of the document will
\* have its own save() rejected (Mongoose VersionError).
StaleOthers(t, u) ==
  [x \in Tasks |->
     IF /\ x # t
        /\ task[x].user = u
        /\ \/ Running(x, "toggleIncognito", "userSave")
           \/ Running(x, "sendMessage", "incSave")
     THEN [task[x] EXCEPT !.stale = TRUE]
     ELSE task[x]]

StaleSweep(u) ==
  IF sweep.pc \in {"delete", "save"}
  THEN [sweep EXCEPT !.stale = @ \cup {u}]
  ELSE sweep

\* ------------------------------------------ socket.on('sendMessage', ...)
\* sendMessage handlers that have not yet persisted their message.
PendingCreates ==
  {t \in Tasks : task[t].kind = "sendMessage"
                  /\ task[t].pc \in {"friends", "blocked", "blockedBy", "create"}}

\* A sendMessage event arrives on a connection whose listeners are
\* registered.  valid = FALSE stands for a payload without receiverId or
\* content.
SendMessage(s, receiverId, valid, tempId) ==
  /\ sockState[s] = "ready"
  /\ nextMsgId + Cardinality(PendingCreates) <= MaxMsgs
  /\ IF ~valid
     THEN /\ emitted' = Delivered(
               {Ev(s, "sendMessageError", 0, tempId, "invalid", Null)})
          /\ UNCHANGED task
     ELSE /\ HasFreeTask
          /\ task' = [task EXCEPT ![FreeTask] =
                        [IdleTask EXCEPT !.kind = "sendMessage",
                                         !.pc = "friends",
                                         !.sock = s, !.user = sockUser[s],
                                         !.peer = receiverId,
                                         !.tempId = tempId]]
          /\ emitted' = {}
  /\ UNCHANGED <<reqVars, typingTimeout, incVars, storeVars, connVars, now>>

\* const areFriends = await areUsersFriends(userId, receiverId)
SendFriends(t) ==
  /\ Running(t, "sendMessage", "friends")
  /\ IF ~areUsersFriends(task[t].user, task[t].peer)
     THEN /\ emitted' = Delivered(
               {Ev(task[t].sock, "sendMessageError", 0, task[t].tempId,
                   "requiresFriendship", Null)})
          /\ Finish(t)
     ELSE /\ Goto(t, "blocked")
          /\ emitted' = {}
  /\ UNCHANGED <<reqVars, typingTimeout, incVars, storeVars, connVars, now>>

\* const blocked = await isUserBlocked(userId, receiverId)
SendBlocked(t) ==
  /\ Running(t, "sendMessage", "blocked")
  /\ task' = [task EXCEPT ![t].blocked = isUserBlocked(task[t].user, task[t].peer),
                          ![t].pc = "blockedBy"]
  /\ emitted' = {}
  /\ UNCHANGED <<reqVars, typingTimeout, incVars, storeVars, connVars, now>>

\* The block check with only the receiver's block list consulted.
SendBlockedBy_ReceiverOnly(t) ==
  /\ Running(t, "sendMessage", "blockedBy")
  /\ IF isUserBlocked(task[t].peer, task[t].user)
     THEN /\ emitted' = Delivered(
               {Ev(task[t].sock, "sendMessageError", 0, task[t].tempId,
                   "isBlocked", Null)})
          /\ Finish(t)
     ELSE /\ task' = [task EXCEPT
                        ![t].chatId = getChatId(task[t].user, task[t].peer),
                        ![t].rsock = userSockets[task[t].peer],
                        ![t].at = IF userSockets[task[t].peer] # NoSocket
                                  THEN now ELSE Null,
                        ![t].pc = "create"]
          /\ emitted' = {}
  /\ UNCHANGED <<reqVars, typingTimeout, incVars, storeVars, connVars, now>>

\* const blockedBy = await isUserBlocked(receiverId, userId); then the
\* registry lookup and the call of Message.create.
SendBlockedBy(t) ==
  /\ Running(t, "sendMessage", "blockedBy")
  /\ IF task[t].blocked \/ isUserBlocked(task[t].peer, task[t].user)
     THEN /\ emitted' = Delivered(
               {Ev(task[t].sock, "sendMessageError", 0, task[t].tempId,
                   "isBlocked", Null)})
          /\ Finish(t)
     ELSE /\ task' = [task EXCEPT
                        ![t].chatId = getChatId(task[t].user, task[t].peer),
                        ![t].rsock = userSockets[task[t].peer],
                        ![t].at = IF userSockets[task[t].peer] # NoSocket
                                  THEN now ELSE Null,
                        ![t].pc = "create"]
          /\ emitted' = {}
  /\ UNCHANGED <<reqVars, typingTimeout, incVars, storeVars, connVars, now>>

\* A document created as delivered whatever the registry answered.
NewMessage_AlwaysDelivered(t) ==
  [sender |-> task[t].user,
   chatId |-> task[t].chatId,
   isDelivered |-> TRUE,
   isRead |-> FALSE,
   deliveredAt |-> now,
   readAt |-> Null,
   createdAt |-> now]

\* The document Message.create persists.
NewMessage(t) ==
  [sender |-> task[t].user,
   chatId |-> task[t].chatId,
   isDelivered |-> task[t].rsock # NoSocket,
   isRead |-> FALSE,
   deliveredAt |-> task[t].at,
   readAt |-> Null,
   createdAt |-> now]

\* const message = await Message.create({...})
SendCreate(t) ==
  /\ Running(t, "sendMessage", "create")
  /\ msgs' = [msgs EXCEPT ![nextMsgId] = NewMessage(t)]
  /\ nextMsgId' = nextMsgId + 1
  /\ task' = [task EXCEPT ![t].mid = nextMsgId, ![t].pc = "populate"]
  /\ emitted' = {}
  /\ UNCHANGED <<reqVars, typingTimeout, incognitoChats, timers, sweep, userVars, connVars, now>>
  /\ covered' = covered \cup CoveredNow'

\* The sender's acknowledgements: newMessageForSidebar, messageSent and,
\* when the recipient was found online, messageDelivered.
SenderAcks(t) ==
  {Ev(task[t].sock, "newMessageForSidebar", task[t].mid, task[t].tempId,
      IF task[t].rsock # NoSocket THEN "delivered" ELSE "", task[t].at),
   Ev(task[t].sock, "messageSent", task[t].mid, task[t].tempId,
      IF task[t].rsock # NoSocket THEN "delivered" ELSE "", task[t].at)}
  \cup
  (IF task[t].rsock # NoSocket
   THEN {Ev(task[t].sock, "messageDelivered", task[t].mid, 0, "", task[t].at)}
   ELSE {})

\* await message.populate('sender'); receiveMessage goes to the room; with
\* the recipient online the handler runs on to getIncognitoStatus, otherwise
\* it first looks the recipient up for the e-mail notification.
SendPopulate(t) ==
  /\ Running(t, "sendMessage", "populate")
  /\ LET room == ToRoom(task[t].chatId, "receiveMessage", task[t].mid,
                        task[t].tempId,
                        IF task[t].rsock # NoSocket THEN "delivered" ELSE "",
                        task[t].at)
     IN IF task[t].rsock # NoSocket
        THEN /\ emitted' = Delivered(
                  room \cup
                  {Ev(task[t].rsock, "newMessageForSidebar", task[t].mid,
                      task[t].tempId, "delivered", task[t].at)} \cup
                  SenderAcks(t))
             /\ Goto(t, "incognito")
        ELSE /\ emitted' = Delivered(room)
             /\ Goto(t, "email")
  /\ UNCHANGED <<reqVars, typingTimeout, incVars, storeVars, connVars, now>>

\* await User.findById(receiverId); await sendNewMessageEmail(...): a
\* failure is caught inside; the acknowledgements follow.
SendEmail(t) ==
  /\ Running(t, "sendMessage", "email")
  /\ emitted' = Delivered(SenderAcks(t))
  /\ Goto(t, "incognito")
  /\ UNCHANGED <<reqVars, typingTimeout, incVars, storeVars, connVars, now>>

\* const incognitoStatus = await getIncognitoStatus(userId, receiverId), up
\* to the return of its User.findById(userId): without a setting of the
\* sender for the chat nothing is scheduled; an expired setting is filtered
\* out and user.save() is called; otherwise the deletion of the message is
\* scheduled for the setting's expiresAt.
SendIncognito(t) ==
  /\ Running(t, "sendMessage", "incognito")
  /\ LET doc == incognitoChats[task[t].user]
         mine == SettingsOf(doc, task[t].chatId)
     IN IF mine = {}
        THEN /\ Finish(t)
             /\ UNCHANGED timers
        ELSE LET x == CHOOSE y \in mine : TRUE IN
             IF x.expiresAt <= now
             THEN /\ task' = [task EXCEPT
                                ![t].doc = Without(doc, task[t].chatId),
                                ![t].stale = FALSE,
                                ![t].pc = "incSave"]
                  /\ UNCHANGED timers
             ELSE /\ timers' = timers \cup
                       {[mid |-> task[t].mid, chatId |-> task[t].chatId,
                         at |-> TimerAt(x.expiresAt)]}
                  /\ Finish(t)
  /\ emitted' = {}
  /\ UNCHANGED <<reqVars, typingTimeout, incognitoChats, sweep, covered, storeVars, connVars, now>>

\* await user.save() inside getIncognitoStatus; a rejected save reaches the
\* catch block of sendMessage.
SendIncSave(t) ==
  /\ Running(t, "sendMessage", "incSave")
  /\ IF task[t].stale
     THEN /\ emitted' = Delivered(
               {Ev(task[t].sock, "sendMessageError", 0, task[t].tempId,
                   "failed", Null)})
          /\ task' = [task EXCEPT ![t] = IdleTask]
          /\ UNCHANGED <<incognitoChats, sweep>>
     ELSE /\ incognitoChats' = [incognitoChats EXCEPT ![task[t].user] = task[t].doc]
          /\ task' = [StaleOthers(t, task[t].user) EXCEPT ![t] = IdleTask]
          /\ sweep' = StaleSweep(task[t].user)
          /\ emitted' = {}
  /\ UNCHANGED <<reqVars, typingTimeout, timers, covered, storeVars, connVars, now>>

\* An awaited store operation of the handler rejects: the catch block answers
\* sendMessageError with data.tempId.  (A failure of the e-mail lookup is
\* caught by the inner try and the handler goes on as in SendEmail.)
SendThrows(t) ==
  /\ task[t].kind = "sendMessage"
  /\ task[t].pc \in {"friends", "blocked", "blockedBy", "create", "populate",
                     "incognito", "incSave"}
  /\ emitted' = Delivered(
       {Ev(task[t].sock, "sendMessageError", 0, task[t].tempId, "failed", Null)})
  /\ Finish(t)
  /\ UNCHANGED <<reqVars, typingTimeout, incVars, storeVars, connVars, now>>

\* --------------------------------- blockUser / unblockUser / removeFriend
\* A handler starts on a connection whose listeners are registered; userId
\* is the closure variable set from socket.user.
StartOn(s, rec) ==
  /\ sockState[s] = "ready"
  /\ HasFreeTask
  /\ task' = [task EXCEPT ![FreeTask] =
                [rec EXCEPT !.sock = s, !.user = sockUser[s]]]

BlockUser(s, userIdToBlock) ==
  /\ StartOn(s, [IdleTask EXCEPT !.kind = "blockUser", !.pc = "own",
                                 !.peer = userIdToBlock])
  /\ emitted' = {}
  /\ UNCHANGED <<reqVars, typingTimeout, incVars, storeVars, connVars, now>>

\* await User.findByIdAndUpdate(userId, {$addToSet: {blockedUsers}, $pull: {friends}})
BlockOwn(t) ==
  /\ Running(t, "blockUser", "own")
  /\ blockedUsers' = [blockedUsers EXCEPT ![task[t].user] = @ \cup {task[t].peer}]
  /\ friends' = [friends EXCEPT ![task[t].user] = @ \ {task[t].peer}]
  /\ Goto(t, "other")
  /\ emitted' = {}
  /\ UNCHANGED <<reqVars, typingTimeout, incVars, isOnline, msgs, nextMsgId, connVars, now>>

\* await User.findByIdAndUpdate(userIdToBlock, {$pull: {friends: userId}})
BlockOther(t) ==
  /\ Running(t, "blockUser", "other")
  /\ friends' = [friends EXCEPT ![task[t].peer] = @ \ {task[t].user}]
  /\ emitted' = Delivered(
       {Ev(task[t].sock, "userBlocked", 0, 0, "", Null)})
  /\ Finish(t)
  /\ UNCHANGED <<reqVars, typingTimeout, incVars, blockedUsers, isOnline, msgs, nextMsgId, connVars, now>>

UnblockUser(s, userIdToUnblock) ==
  /\ StartOn(s, [IdleTask EXCEPT !.kind = "unblockUser", !.pc = "own",
                                 !.peer = userIdToUnblock])
  /\ emitted' = {}
  /\ UNCHANGED <<reqVars, typingTimeout, incVars, storeVars, connVars, now>>

\* await User.findByIdAndUpdate(userId, {$pull: {blockedUsers}})
UnblockOwn(t) ==
  /\ Running(t, "unblockUser", "own")
  /\ blockedUsers' = [blockedUsers EXCEPT ![task[t].user] = @ \ {task[t].peer}]
  /\ emitted' = Delivered(
       {Ev(task[t].sock, "userUnblocked", 0, 0, "", Null)})
  /\ Finish(t)
  /\ UNCHANGED <<reqVars, typingTimeout, incVars, friends, isOnline, msgs, nextMsgId, connVars, now>>

RemoveFriend(s, friendId) ==
  /\ StartOn(s, [IdleTask EXCEPT !.kind = "removeFriend", !.pc = "own",
                                 !.peer = friendId])
  /\ emitted' = {}
  /\ UNCHANGED <<reqVars, typingTimeout, incVars, storeVars, connVars, now>>

\* await User.findByIdAndUpdate(userId, {$pull: {friends: friendId}})
RemoveOwn(t) ==
  /\ Running(t, "removeFriend", "own")
  /\ friends' = [friends EXCEPT ![task[t].user] = @ \ {task[t].peer}]
  /\ Goto(t, "other")
  /\ emitted' = {}
  /\ UNCHANGED <<reqVars, typingTimeout, incVars, blockedUsers, isOnline, msgs, nextMsgId, connVars, now>>

\* await User.findByIdAndUpdate(friendId, {$pull: {friends: userId}})
RemoveOther(t) ==
  /\ Running(t, "removeFriend", "other")
  /\ friends' = [friends EXCEPT ![task[t].peer] = @ \ {task[t].user}]
  /\ emitted' = Delivered(
       {Ev(task[t].sock, "friendRemoved", 0, 0, "", Null),
        Ev(userSockets[task[t].peer], "friendRemoved", 0, 0, "", Null)})
  /\ Finish(t)
  /\ UNCHANGED <<reqVars, typingTimeout, incVars, blockedUsers, isOnline, msgs, nextMsgId, connVars, now>>

\* ------------- sendChatRequest / acceptChatRequest / reject / cancel
\* The ChatRequest schema is not part of the sources: a request is a document
\* {sender, receiver, status} and the collection has no unique index.
ReqEv(to, ev, requestId, tag) == Ev(to, ev, requestId, 0, tag, Null)

PendingBetween(a, b) ==
  {r \in RequestIds :
     /\ chatRequests[r] # NoRequest
     /\ chatRequests[r].status = "pending"
     /\ \/ chatRequests[r].sender = a /\ chatRequests[r].receiver = b
        \/ chatRequests[r].sender = b /\ chatRequests[r].receiver = a}

\* The sendChatRequest handlers that may still create a document.
PendingRequestCreates ==
  {t \in Tasks : task[t].kind = "sendChatRequest"
                  /\ task[t].pc \in {"friends", "blocked", "existing", "create"}}

SendChatRequest(s, receiverId) ==
  /\ nextRequestId + Cardinality(PendingRequestCreates) <= MaxReqs
  /\ StartOn(s, [IdleTask EXCEPT !.kind = "sendChatRequest", !.pc = "friends",
                                 !.peer = receiverId])
  /\ emitted' = {}
  /\ UNCHANGED <<reqVars, typingTimeout, incVars, storeVars, connVars, now>>

\* const areFriends = await areUsersFriends(userId, receiverId)
ReqFriends(t) ==
  /\ Running(t, "sendChatRequest", "friends")
  /\ IF areUsersFriends(task[t].user, task[t].peer)
     THEN /\ emitted' = Delivered(
               {ReqEv(task[t].sock, "chatRequestError", 0, "friends")})
          /\ Finish(t)
     ELSE /\ emitted' = {}
          /\ Goto(t, "blocked")
  /\ UNCHANGED <<reqVars, typingTimeout, incVars, storeVars, connVars, now>>

\* const blocked = await isUserBlocked(receiverId, userId)
ReqBlocked(t) ==
  /\ Running(t, "sendChatRequest", "blocked")
  /\ IF isUserBlocked(task[t].peer, task[t].user)
     THEN /\ emitted' = Delivered(
               {ReqEv(task[t].sock, "chatRequestError", 0, "blocked")})
          /\ Finish(t)
     ELSE /\ emitted' = {}
          /\ Goto(t, "existing")
  /\ UNCHANGED <<reqVars, typingTimeout, incVars, storeVars, connVars, now>>

\* const existingRequest = await ChatRequest.findOne({$or: [...pending...]})
ReqExisting(t) ==
  /\ Running(t, "sendChatRequest", "existing")
  /\ IF PendingBetween(task[t].user, task[t].peer) # {}
     THEN /\ emitted' = Delivered(
               {ReqEv(task[t].sock, "chatRequestError", 0, "exists")})
          /\ Finish(t)
     ELSE /\ emitted' = {}
          /\ Goto(t, "create")
  /\ UNCHANGED <<reqVars, typingTimeout, incVars, storeVars, connVars, now>>

\* const chatRequest = await ChatRequest.create({sender, receiver, status})
ReqCreate(t) ==
  /\ Running(t, "sendChatRequest", "create")
  /\ chatRequests' = [chatRequests EXCEPT ![nextRequestId] =
                        [sender |-> task[t].user, receiver |-> task[t].peer,
                         status |-> "pending"]]
  /\ nextRequestId' = nextRequestId + 1
  /\ task' = [task EXCEPT ![t].requestId = nextRequestId, ![t].pc = "populate"]
  /\ emitted' = {}
  /\ UNCHANGED <<typingTimeout, incVars, storeVars, connVars, now>>

\* The two awaited populate calls, then newChatRequest to the receiver's
\* registry entry and chatRequestSent to the sender.
ReqPopulate(t) ==
  /\ Running(t, "sendChatRequest", "populate")
  /\ emitted' = Delivered(
       {ReqEv(userSockets[task[t].peer], "newChatRequest", task[t].requestId, ""),
        ReqEv(task[t].sock, "chatRequestSent", task[t].requestId, "")})
  /\ Finish(t)
  /\ UNCHANGED <<reqVars, typingTimeout, incVars, storeVars, connVars, now>>

\* const chatRequest = await ChatRequest.findById(requestId), the two checks
\* of accept and reject, and the assignment of the new status to the loaded
\* document.
RequestFind(t, kind) ==
  /\ Running(t, kind, "find")
  /\ LET chatRequest == chatRequests[task[t].requestId] IN
     IF chatRequest = NoRequest
     THEN /\ emitted' = Delivered(
               {ReqEv(task[t].sock, "chatRequestError", 0, "notFound")})
          /\ Finish(t)
     ELSE IF chatRequest.receiver # task[t].user
     THEN /\ emitted' = Delivered(
               {ReqEv(task[t].sock, "chatRequestError", 0, "unauthorized")})
          /\ Finish(t)
     ELSE /\ emitted' = {}
          /\ task' = [task EXCEPT ![t].peer = chatRequest.sender,
                                  ![t].status = chatRequest.status,
                                  ![t].pc = "save"]
  /\ UNCHANGED <<reqVars, typingTimeout, incVars, storeVars, connVars, now>>

\* await chatRequest.save() with status set to newStatus: a document whose
\* status already was newStatus has no modified path and nothing is written;
\* otherwise the status is written, and a document that is gone rejects the
\* save (DocumentNotFoundError).  TRUE when the save resolves.
SaveResolves(t, newStatus) ==
  task[t].status = newStatus \/ chatRequests[task[t].requestId] # NoRequest

SavedRequests(t, newStatus) ==
  IF task[t].status = newStatus \/ chatRequests[task[t].requestId] = NoRequest
  THEN chatRequests
  ELSE [chatRequests EXCEPT ![task[t].requestId].status = newStatus]

AcceptChatRequest(s, requestId) ==
  /\ StartOn(s, [IdleTask EXCEPT !.kind = "acceptChatRequest", !.pc = "find",
                                 !.requestId = requestId])
  /\ emitted' = {}
  /\ UNCHANGED <<reqVars, typingTimeout, incVars, storeVars, connVars, now>>

AcceptFind(t) == RequestFind(t, "acceptChatRequest")

\* chatRequest.status = 'accepted'; await chatRequest.save()
AcceptSave(t) ==
  /\ Running(t, "acceptChatRequest", "save")
  /\ chatRequests' = SavedRequests(t, "accepted")
  /\ IF SaveResolves(t, "accepted")
     THEN /\ emitted' = {}
          /\ Goto(t, "own")
     ELSE /\ emitted' = Delivered(
               {ReqEv(task[t].sock, "chatRequestError", 0, "failed")})
          /\ Finish(t)
  /\ UNCHANGED <<nextRequestId, typingTimeout, incVars, storeVars, connVars, now>>

\* await User.findByIdAndUpdate(userId, {$addToSet: {friends: sender}})
AcceptOwn(t) ==
  /\ Running(t, "acceptChatRequest", "own")
  /\ friends' = [friends EXCEPT ![task[t].user] = @ \cup {task[t].peer}]
  /\ Goto(t, "other")
  /\ emitted' = {}
  /\ UNCHANGED <<reqVars, typingTimeout, incVars, blockedUsers, isOnline, msgs,
                 nextMsgId, connVars, now>>

\* await User.findByIdAndUpdate(chatRequest.sender, {$addToSet: {friends: userId}})
AcceptOther(t) ==
  /\ Running(t, "acceptChatRequest", "other")
  /\ friends' = [friends EXCEPT ![task[t].peer] = @ \cup {task[t].user}]
  /\ Goto(t, "populate")
  /\ emitted' = {}
  /\ UNCHANGED <<reqVars, typingTimeout, incVars, blockedUsers, isOnline, msgs,
                 nextMsgId, connVars, now>>

\* The two awaited populate calls, then chatRequestAccepted to the sender's
\* registry entry and to the accepting connection.
AcceptPopulate(t) ==
  /\ Running(t, "acceptChatRequest", "populate")
  /\ emitted' = Delivered(
       {ReqEv(userSockets[task[t].peer], "chatRequestAccepted",
              task[t].requestId, ""),
        ReqEv(task[t].sock, "chatRequestAccepted", task[t].requestId, "")})
  /\ Finish(t)
  /\ UNCHANGED <<reqVars, typingTimeout, incVars, storeVars, connVars, now>>

RejectChatRequest(s, requestId) ==
  /\ StartOn(s, [IdleTask EXCEPT !.kind = "rejectChatRequest", !.pc = "find",
                                 !.requestId = requestId])
  /\ emitted' = {}
  /\ UNCHANGED <<reqVars, typingTimeout, incVars, storeVars, connVars, now>>

RejectFind(t) == RequestFind(t, "rejectChatRequest")

\* chatRequest.status = 'rejected'; await chatRequest.save(); then
\* chatRequestRejected to the sender's registry entry and to the rejecting
\* connection.
RejectSave(t) ==
  /\ Running(t, "rejectChatRequest", "save")
  /\ chatRequests' = SavedRequests(t, "rejected")
  /\ emitted' =
       IF SaveResolves(t, "rejected")
       THEN Delivered(
              {ReqEv(userSockets[task[t].peer], "chatRequestRejected",
                     task[t].requestId, ""),
               ReqEv(task[t].sock, "chatRequestRejected", task[t].requestId, "")})
       ELSE Delivered({ReqEv(task[t].sock, "chatRequestError", 0, "failed")})
  /\ Finish(t)
  /\ UNCHANGED <<nextRequestId, typingTimeout, incVars, storeVars, connVars, now>>

CancelChatRequest(s, requestId) ==
  /\ StartOn(s, [IdleTask EXCEPT !.kind = "cancelChatRequest", !.pc = "find",
                                 !.requestId = requestId])
  /\ emitted' = {}
  /\ UNCHANGED <<reqVars, typingTimeout, incVars, storeVars, connVars, now>>

\* const chatRequest = await ChatRequest.findById(requestId) and the checks
\* of cancel.
CancelFind(t) ==
  /\ Running(t, "cancelChatRequest", "find")
  /\ LET chatRequest == chatRequests[task[t].requestId] IN
     IF chatRequest = NoRequest
     THEN /\ emitted' = Delivered(
               {ReqEv(task[t].sock, "chatRequestError", 0, "notFound")})
          /\ Finish(t)
     ELSE IF chatRequest.sender # task[t].user
     THEN /\ emitted' = Delivered(
               {ReqEv(task[t].sock, "chatRequestError", 0, "unauthorized")})
          /\ Finish(t)
     ELSE /\ emitted' = {}
          /\ task' = [task EXCEPT ![t].peer = chatRequest.receiver,
                                  ![t].pc = "delete"]
  /\ UNCHANGED <<reqVars, typingTimeout, incVars, storeVars, connVars, now>>

\* await ChatRequest.findByIdAndDelete(requestId); then chatRequestCancelled
\* to the receiver's registry entry and to the cancelling connection.
CancelDelete(t) ==
  /\ Running(t, "cancelChatRequest", "delete")
  /\ chatRequests' = [chatRequests EXCEPT ![task[t].requestId] = NoRequest]
  /\ emitted' = Delivered(
       {ReqEv(userSockets[task[t].peer], "chatRequestCancelled",
              task[t].requestId, ""),
        ReqEv(task[t].sock, "chatRequestCancelled", task[t].requestId, "")})
  /\ Finish(t)
  /\ UNCHANGED <<nextRequestId, typingTimeout, incVars, storeVars, connVars, now>>

\* ------------------------------------ markMessageAsRead / markChatAsRead
MarkMessageAsRead(s, messageId) ==
  /\ StartOn(s, [IdleTask EXCEPT !.kind = "markMessageAsRead", !.pc = "find",
                                 !.mid = messageId])
  /\ emitted' = {}
  /\ UNCHANGED <<reqVars, typingTimeout, incVars, storeVars, connVars, now>>

\* const message = await Message.findById(messageId); the checks; the call
\* of findByIdAndUpdate with readAt: new Date().
MarkFind(t) ==
  /\ Running(t, "markMessageAsRead", "find")
  /\ LET message == msgs[task[t].mid] IN
     IF message = NoMsg \/ ~isUserInChat(message.chatId, task[t].user)
     THEN Finish(t)
     ELSE IF ~message.isRead
          THEN task' = [task EXCEPT ![t].chatId = message.chatId,
                                    ![t].at = now,
                                    ![t].pc = "update"]
          ELSE Finish(t)
  /\ emitted' = {}
  /\ UNCHANGED <<reqVars, typingTimeout, incVars, storeVars, connVars, now>>

\* The update with the flag set and the timestamp left out.
MarkUpdate_NoReadAt(t) ==
  /\ Running(t, "markMessageAsRead", "update")
  /\ LET m == task[t].mid IN
     IF msgs[m] = NoMsg
     THEN UNCHANGED msgs /\ emitted' = {}
     ELSE /\ msgs' = [msgs EXCEPT ![m].isRead = TRUE]
          /\ emitted' = Delivered(
               ToRoom(task[t].chatId, "messageRead", m, 0, "", task[t].at))
  /\ Finish(t)
  /\ UNCHANGED <<reqVars, typingTimeout, incVars, userVars, nextMsgId, connVars, now>>

\* const updatedMessage = await Message.findByIdAndUpdate(messageId,
\*   {isRead: true, readAt}, {new: true}); messageRead goes to the room.
MarkUpdate(t) ==
  /\ Running(t, "markMessageAsRead", "update")
  /\ LET m == task[t].mid IN
     IF msgs[m] = NoMsg
     THEN UNCHANGED msgs /\ emitted' = {}
     ELSE /\ msgs' = [msgs EXCEPT ![m].isRead = TRUE, ![m].readAt = task[t].at]
          /\ emitted' = Delivered(
               ToRoom(task[t].chatId, "messageRead", m, 0, "", task[t].at))
  /\ Finish(t)
  /\ UNCHANGED <<reqVars, typingTimeout, incVars, userVars, nextMsgId, connVars, now>>

\* The call of Message.updateMany({chatId, sender: otherUserId, isRead: false},
\* {isRead: true, readAt: new Date()}).
MarkChatAsRead(s, otherUserId) ==
  /\ StartOn(s, [IdleTask EXCEPT !.kind = "markChatAsRead",
                                 !.pc = "updateMany",
                                 !.peer = otherUserId,
                                 !.chatId = getChatId(sockUser[s], otherUserId),
                                 !.at = now])
  /\ emitted' = {}
  /\ UNCHANGED <<reqVars, typingTimeout, incVars, storeVars, connVars, now>>

UnreadFrom(chatId, senderId) ==
  {m \in MsgIds : /\ msgs[m] # NoMsg
                  /\ msgs[m].chatId = chatId
                  /\ msgs[m].sender = senderId
                  /\ msgs[m].isRead = FALSE}

\* const result = await Message.updateMany(...); chatRead goes to the room
\* when result.modifiedCount > 0.
ChatReadUpdate(t) ==
  /\ Running(t, "markChatAsRead", "updateMany")
  /\ LET hit == UnreadFrom(task[t].chatId, task[t].peer) IN
     /\ msgs' = [m \in MsgIds |->
                   IF m \in hit
                   THEN [msgs[m] EXCEPT !.isRead = TRUE, !.readAt = task[t].at]
                   ELSE msgs[m]]
     /\ emitted' =
          (IF hit # {}
           THEN Delivered(ToRoom(task[t].chatId, "chatRead", 0, 0, "", now))
           ELSE {})
  /\ Finish(t)
  /\ UNCHANGED <<reqVars, typingTimeout, incVars, userVars, nextMsgId, connVars, now>>

\* ------------------------------------------ socket.on('loadMessages', ...)
LoadLimit == 50

\* The messages of a chat in the order of .sort({createdAt: 1}); documents
\* with the same createdAt come in _id order.
RECURSIVE SortByCreatedAt(_)
SortByCreatedAt(S) ==
  IF S = {} THEN <<>>
  ELSE LET m == CHOOSE x \in S :
                  \A y \in S : \/ msgs[x].createdAt < msgs[y].createdAt
                               \/ /\ msgs[x].createdAt = msgs[y].createdAt
                                  /\ x <= y
       IN <<m>> \o SortByCreatedAt(S \ {m})

MsgsOfChat(chatId) == {m \in MsgIds : msgs[m] # NoMsg /\ msgs[m].chatId = chatId}

\* Message.find({chatId}).sort({createdAt: 1}).limit(limit), mapped to the
\* payload of messagesLoaded.
ListByConversation(chatId, limit) ==
  LET all == SortByCreatedAt(MsgsOfChat(chatId))
      n   == IF Len(all) < limit THEN Len(all) ELSE limit
  IN [i \in 1..n |-> [mid |-> all[i],
                      isDelivered |-> msgs[all[i]].isDelivered,
                      isRead |-> msgs[all[i]].isRead]]

\* The query of loadMessages: .limit(50)
LoadedMessages(chatId) == ListByConversation(chatId, LoadLimit)

LoadMessages(s, otherUserId) ==
  /\ StartOn(s, [IdleTask EXCEPT !.kind = "loadMessages", !.pc = "friends",
                                 !.peer = otherUserId,
                                 !.chatId = getChatId(sockUser[s], otherUserId)])
  /\ emitted' = {}
  /\ UNCHANGED <<reqVars, typingTimeout, incVars, storeVars, connVars, now>>

\* const areFriends = await areUsersFriends(userId, otherUserId)
LoadFriends(t) ==
  /\ Running(t, "loadMessages", "friends")
  /\ IF ~areUsersFriends(task[t].user, task[t].peer)
     THEN /\ emitted' = Delivered(
               {Ev(task[t].sock, "messagesLoadError", 0, 0,
                   "requiresFriendship", Null)})
          /\ Finish(t)
     ELSE /\ Goto(t, "blocked")
          /\ emitted' = {}
  /\ UNCHANGED <<reqVars, typingTimeout, incVars, storeVars, connVars, now>>

\* const blocked = await isUserBlocked(userId, otherUserId)
LoadBlocked(t) ==
  /\ Running(t, "loadMessages", "blocked")
  /\ task' = [task EXCEPT ![t].blocked = isUserBlocked(task[t].user, task[t].peer),
                          ![t].pc = "blockedBy"]
  /\ emitted' = {}
  /\ UNCHANGED <<reqVars, typingTimeout, incVars, storeVars, connVars, now>>

\* const blockedBy = await isUserBlocked(otherUserId, userId)
LoadBlockedBy(t) ==
  /\ Running(t, "loadMessages", "blockedBy")
  /\ IF task[t].blocked \/ isUserBlocked(task[t].peer, task[t].user)
     THEN /\ emitted' = Delivered(
               {Ev(task[t].sock, "messagesLoadError", 0, 0, "isBlocked", Null)})
          /\ Finish(t)
     ELSE /\ Goto(t, "find")
          /\ emitted' = {}
  /\ UNCHANGED <<reqVars, typingTimeout, incVars, storeVars, connVars, now>>

\* const messages = await Message.find({chatId})...; messagesLoaded
LoadFind(t) ==
  /\ Running(t, "loadMessages", "find")
  /\ emitted' = Delivered(
       {EvList(task[t].sock, "messagesLoaded", LoadedMessages(task[t].chatId))})
  /\ Finish(t)
  /\ UNCHANGED <<reqVars, typingTimeout, incVars, storeVars, connVars, now>>

\* ---------------------------------------------- socket.on('clearChat', ...)
ClearChat(s, otherUserId) ==
  /\ StartOn(s, [IdleTask EXCEPT !.kind = "clearChat", !.pc = "delete",
                                 !.peer = otherUserId,
                                 !.chatId = getChatId(sockUser[s], otherUserId)])
  /\ emitted' = {}
  /\ UNCHANGED <<reqVars, typingTimeout, incVars, storeVars, connVars, now>>

\* deleteMany with an empty filter.
ClearDelete_All(t) ==
  /\ Running(t, "clearChat", "delete")
  /\ msgs' = [m \in MsgIds |-> NoMsg]
  /\ emitted' = Delivered(
       ToRoom(task[t].chatId, "chatCleared", 0, 0, "", Null) \cup
       {RoomEv(task[t].sock, task[t].chatId, "chatClearSuccess", 0, 0, "", Null)})
  /\ Finish(t)
  /\ UNCHANGED <<reqVars, typingTimeout, incVars, userVars, nextMsgId, connVars, now>>

\* await Message.deleteMany({chatId}); chatCleared goes to the room and
\* chatClearSuccess to the caller.
ClearDelete(t) ==
  /\ Running(t, "clearChat", "delete")
  /\ msgs' = [m \in MsgIds |->
                IF m \in MsgsOfChat(task[t].chatId) THEN NoMsg ELSE msgs[m]]
  /\ emitted' = Delivered(
       ToRoom(task[t].chatId, "chatCleared", 0, 0, "", Null) \cup
       {RoomEv(task[t].sock, task[t].chatId, "chatClearSuccess", 0, 0, "", Null)})
  /\ Finish(t)
  /\ UNCHANGED <<reqVars, typingTimeout, incVars, userVars, nextMsgId, connVars, now>>

\* ---------------------------------------------- socket.on('joinChat', ...)
JoinChat(s, chatId) ==
  /\ sockState[s] = "ready"
  /\ rooms' = [rooms EXCEPT ![s] = @ \cup {chatId}]
  /\ emitted' = {}
  /\ UNCHANGED <<reqVars, typingTimeout, incVars, storeVars, userSockets, sockUser, sockState, task, now>>

\* ------------------------- userTyping / stopTyping (src/unnamed/part_004)
\* The pending auto-stop timers among the pending callbacks.
TypingTimers == {x \in timers : "rsock" \in DOMAIN x}

TypingEv(to, ev, userId, tag) ==
  [Ev(to, ev, 0, 0, tag, Null) EXCEPT !.user = userId]

\* A timer object distinct from the one socket.typingTimeout refers to.
NewTypingTimer(s, r) ==
  [sock |-> s, rsock |-> r, user |-> sockUser[s],
   gen |-> IF typingTimeout[s] = NoTimer THEN 0 ELSE 1 - typingTimeout[s].gen]

\* The previous timer is left pending when a new one is armed.
UserTyping_NoClear(s, recipientId) ==
  /\ sockState[s] = "ready"
  /\ LET r == userSockets[recipientId] IN
     IF r # NoSocket
     THEN /\ emitted' = Delivered({TypingEv(r, "userTyping", sockUser[s], "")})
          /\ timers' = timers \cup {NewTypingTimer(s, r)}
          /\ typingTimeout' = [typingTimeout EXCEPT ![s] = NewTypingTimer(s, r)]
     ELSE /\ emitted' = {}
          /\ UNCHANGED <<timers, typingTimeout>>
  /\ UNCHANGED <<reqVars, incognitoChats, sweep, covered, storeVars, connVars, task, now>>

\* socket.on('userTyping', {recipientId}): userTyping goes to the recipient's
\* registered connection, a 3-second timer for a synthetic stopTyping is
\* armed, the timer socket.typingTimeout refers to is cleared and the new
\* one is stored in its place.
UserTyping(s, recipientId) ==
  /\ sockState[s] = "ready"
  /\ LET r == userSockets[recipientId] IN
     IF r # NoSocket
     THEN /\ emitted' = Delivered({TypingEv(r, "userTyping", sockUser[s], "")})
          /\ timers' = (timers \cup {NewTypingTimer(s, r)}) \ {typingTimeout[s]}
          /\ typingTimeout' = [typingTimeout EXCEPT ![s] = NewTypingTimer(s, r)]
     ELSE /\ emitted' = {}
          /\ UNCHANGED <<timers, typingTimeout>>
  /\ UNCHANGED <<reqVars, incognitoChats, sweep, covered, storeVars, connVars, task, now>>

\* socket.on('stopTyping', {recipientId}): stopTyping goes to the recipient's
\* registered connection and the timer is cleared.
StopTyping(s, recipientId) ==
  /\ sockState[s] = "ready"
  /\ LET r == userSockets[recipientId] IN
     IF r # NoSocket
     THEN /\ emitted' = Delivered({TypingEv(r, "stopTyping", sockUser[s], "")})
          /\ timers' = timers \ {typingTimeout[s]}
          /\ typingTimeout' = [typingTimeout EXCEPT ![s] = NoTimer]
     ELSE /\ emitted' = {}
          /\ UNCHANGED <<timers, typingTimeout>>
  /\ UNCHANGED <<reqVars, incognitoChats, sweep, covered, storeVars, connVars, task, now>>

\* The auto-stop timer fires: a synthetic stopTyping goes to the connection
\* that was the recipient's when the timer was armed.
TypingFire(x) ==
  /\ x \in TypingTimers
  /\ timers' = timers \ {x}
  /\ emitted' = Delivered({TypingEv(x.rsock, "stopTyping", x.user, "auto")})
  /\ UNCHANGED <<reqVars, typingTimeout, incognitoChats, sweep, covered, storeVars,
                 connVars, task, now>>

\* The disconnect handler does not clear the timer.
DisconnectTyping_KeepsTimer(s) ==
  /\ sockState[s] = "ready"
  /\ HasFreeTask
  /\ sockState' = [sockState EXCEPT ![s] = "closed"]
  /\ userSockets' = [userSockets EXCEPT ![sockUser[s]] = NoSocket]
  /\ task' = [task EXCEPT ![FreeTask] =
                [IdleTask EXCEPT !.kind = "disconnect", !.pc = "offline",
                                 !.sock = s, !.user = sockUser[s]]]
  /\ emitted' = {}
  /\ UNCHANGED <<reqVars, typingTimeout, incVars, storeVars, sockUser, rooms, now>>

\* socket.on('disconnect') of part_004: the registry entry is deleted and
\* the timer socket.typingTimeout refers to is cleared before the first
\* await; the handler goes on to set the user offline.
DisconnectTyping(s) ==
  /\ sockState[s] = "ready"
  /\ HasFreeTask
  /\ sockState' = [sockState EXCEPT ![s] = "closed"]
  /\ userSockets' = [userSockets EXCEPT ![sockUser[s]] = NoSocket]
  /\ timers' = timers \ {typingTimeout[s]}
  /\ task' = [task EXCEPT ![FreeTask] =
                [IdleTask EXCEPT !.kind = "disconnect", !.pc = "offline",
                                 !.sock = s, !.user = sockUser[s]]]
  /\ emitted' = {}
  /\ UNCHANGED <<reqVars, typingTimeout, incognitoChats, sweep, covered, storeVars,
                 sockUser, rooms, now>>

\* ------------------------------------------------------ incognito mode
\* socket.on('toggleIncognito', {otherUserId, enabled, durationHours})
ToggleIncognito(s, otherUserId, enabled, durationHours) ==
  /\ StartOn(s, [IdleTask EXCEPT !.kind = "toggleIncognito",
                                 !.pc = "findUser",
                                 !.peer = otherUserId,
                                 !.chatId = getChatId(sockUser[s], otherUserId),
                                 !.enabled = enabled,
                                 !.dur = durationHours])
  /\ emitted' = {}
  /\ UNCHANGED <<reqVars, typingTimeout, incVars, storeVars, connVars, now>>

\* const user = await User.findById(userId); the setting of this chat is
\* filtered out of user.incognitoChats and, when enabling, a new one with
\* expiresAt = Date.now() + duration is pushed; user.save() is called.
ToggleFind(t) ==
  /\ Running(t, "toggleIncognito", "findUser")
  /\ LET kept == Without(incognitoChats[task[t].user], task[t].chatId)
         expiresAt == now + task[t].dur
     IN task' = [task EXCEPT
                   ![t].doc = IF task[t].enabled
                              THEN kept \cup {[chatId |-> task[t].chatId,
                                               expiresAt |-> expiresAt]}
                              ELSE kept,
                   ![t].at = IF task[t].enabled THEN expiresAt ELSE Null,
                   ![t].stale = FALSE,
                   ![t].pc = "userSave"]
  /\ emitted' = {}
  /\ UNCHANGED <<reqVars, typingTimeout, incVars, storeVars, connVars, now>>

\* Disabling also cancels the deletions scheduled for the conversation.
ToggleSave_Cancels(t) ==
  /\ Running(t, "toggleIncognito", "userSave")
  /\ UNCHANGED <<reqVars, typingTimeout, storeVars, connVars, now>>
  /\ timers' = IF task[t].stale \/ task[t].enabled THEN timers
               ELSE {x \in timers : x.chatId # task[t].chatId}
  /\ IF task[t].stale
     THEN /\ emitted' = Delivered(
               {Ev(task[t].sock, "incognitoError", 0, 0, "", Null)})
          /\ Finish(t)
          /\ UNCHANGED <<incognitoChats, sweep, covered>>
     ELSE /\ incognitoChats' = [incognitoChats EXCEPT ![task[t].user] = task[t].doc]
          /\ emitted' = Delivered(
               {RoomEv(to, task[t].chatId,
                       IF task[t].enabled THEN "incognitoEnabled"
                                          ELSE "incognitoDisabled",
                       0, 0, "", task[t].at)
                  : to \in {task[t].sock, userSockets[task[t].peer]}})
          /\ task' = [StaleOthers(t, task[t].user) EXCEPT
                        ![t] = IF task[t].enabled
                               THEN [task[t] EXCEPT !.pc = "existing"]
                               ELSE IdleTask]
          /\ sweep' = StaleSweep(task[t].user)
          /\ covered' = covered \cup CoveredNow'

\* await user.save(); incognitoEnabled / incognitoDisabled go to the caller
\* and to the other user's registered connection; when enabling,
\* Message.find({chatId}) is called.  A rejected save is answered by
\* incognitoError.
ToggleSave(t) ==
  /\ Running(t, "toggleIncognito", "userSave")
  /\ UNCHANGED <<reqVars, typingTimeout, storeVars, connVars, now, timers>>
  /\ IF task[t].stale
     THEN /\ emitted' = Delivered(
               {Ev(task[t].sock, "incognitoError", 0, 0, "", Null)})
          /\ Finish(t)
          /\ UNCHANGED <<incognitoChats, sweep, covered>>
     ELSE /\ incognitoChats' = [incognitoChats EXCEPT ![task[t].user] = task[t].doc]
          /\ emitted' = Delivered(
               {RoomEv(to, task[t].chatId,
                       IF task[t].enabled THEN "incognitoEnabled"
                                          ELSE "incognitoDisabled",
                       0, 0, "", task[t].at)
                  : to \in {task[t].sock, userSockets[task[t].peer]}})
          /\ task' = [StaleOthers(t, task[t].user) EXCEPT
                        ![t] = IF task[t].enabled
                               THEN [task[t] EXCEPT !.pc = "existing"]
                               ELSE IdleTask]
          /\ sweep' = StaleSweep(task[t].user)
          /\ covered' = covered \cup CoveredNow'

\* const existingMessages = await Message.find({chatId}); a deletion is
\* scheduled for each after expiresAt - new Date().
ToggleExisting(t) ==
  /\ Running(t, "toggleIncognito", "existing")
  /\ timers' = timers \cup
       {[mid |-> m, chatId |-> task[t].chatId,
         at |-> TimerAt(task[t].at)]
          : m \in MsgsOfChat(task[t].chatId)}
  /\ Finish(t)
  /\ emitted' = {}
  /\ UNCHANGED <<reqVars, typingTimeout, incognitoChats, sweep, covered, storeVars, connVars, now>>

\* An awaited store operation of the handler rejects: incognitoError.
ToggleThrows(t) ==
  /\ task[t].kind = "toggleIncognito"
  /\ task[t].pc \in {"findUser", "userSave", "existing"}
  /\ emitted' = Delivered({Ev(task[t].sock, "incognitoError", 0, 0, "", Null)})
  /\ Finish(t)
  /\ UNCHANGED <<reqVars, typingTimeout, incVars, storeVars, connVars, now>>

\* messageDeleted is emitted whether or not a document was deleted.
TimerDelete_Always(x) ==
  /\ x \in timers
  /\ x.at <= now
  /\ timers' = timers \ {x}
  /\ msgs' = [msgs EXCEPT ![x.mid] = NoMsg]
  /\ emitted' = Delivered(
       ToRoom(x.chatId, "messageDeleted", x.mid, 0, "incognito", Null))
  /\ UNCHANGED <<reqVars, typingTimeout, incognitoChats, sweep, covered, userVars, nextMsgId,
                 connVars, task, now>>

\* The callback of scheduleMessageDeletion: await
\* Message.findByIdAndDelete(messageId); messageDeleted goes to the room when
\* a document was deleted.
TimerDelete(x) ==
  /\ x \in timers
  /\ x.at <= now
  /\ timers' = timers \ {x}
  /\ IF msgs[x.mid] # NoMsg
     THEN /\ msgs' = [msgs EXCEPT ![x.mid] = NoMsg]
          /\ emitted' = Delivered(
               ToRoom(x.chatId, "messageDeleted", x.mid, 0, "incognito", Null))
     ELSE /\ UNCHANGED msgs
          /\ emitted' = {}
  /\ UNCHANGED <<reqVars, typingTimeout, incognitoChats, sweep, covered, userVars, nextMsgId,
                 connVars, task, now>>

\* ------------------------------------------ cleanupExpiredIncognitoChats
DoneSweep == [IdleSweep EXCEPT !.last = sweep.last]

RECURSIVE UserSeq(_)
UserSeq(S) ==
  IF S = {} THEN <<>>
  ELSE LET u == CHOOSE x \in S : \A y \in S : x = y \/ LexLess(x, y)
       IN <<[user |-> u, doc |-> incognitoChats[u]]>> \o UserSeq(S \ {u})

RECURSIVE ChatSeq(_)
ChatSeq(S) ==
  IF S = {} THEN <<>>
  ELSE LET c == CHOOSE x \in S : \A y \in S : x = y \/ LexLess(x, y)
       IN <<c>> \o ChatSeq(S \ {c})

\* Every setting taken for expired, whatever its expiresAt.
ExpiredChats_All(doc, start) == {x.chatId : x \in doc}

\* The chats of a user document whose setting has expiresAt <= now, now
\* being the time read when the pass began.
ExpiredChats(doc, start) == {x.chatId : x \in {y \in doc : y.expiresAt <= start}}

\* The loops run on to the next await: the deleteMany of the first expired
\* chat of the next user that has one, or the end of the pass.
RECURSIVE SweepNext(_)
SweepNext(sw) ==
  IF sw.todo = <<>> THEN DoneSweep
  ELSE LET h == Head(sw.todo) IN
       IF ExpiredChats(h.doc, sw.start) = {}
       THEN SweepNext([sw EXCEPT !.todo = Tail(@)])
       ELSE [sw EXCEPT !.todo = Tail(@), !.user = h.user, !.doc = h.doc,
                       !.chats = ChatSeq(ExpiredChats(h.doc, sw.start)),
                       !.pc = "delete"]

\* The interval timer fires: const now = new Date(); User.find is called.
SweepStart ==
  /\ sweep.pc = "idle"
  /\ now % SweepEvery = 0
  /\ sweep.last < now
  /\ sweep' = [IdleSweep EXCEPT !.pc = "find", !.start = now, !.last = now]
  /\ emitted' = {}
  /\ UNCHANGED <<reqVars, typingTimeout, incognitoChats, timers, covered, storeVars, connVars, task, now>>

\* const users = await User.find({'incognitoChats.0': {$exists: true}})
SweepFind ==
  /\ sweep.pc = "find"
  /\ sweep' = SweepNext([sweep EXCEPT
                           !.todo = UserSeq({u \in Users : incognitoChats[u] # {}}),
                           !.stale = {}])
  /\ emitted' = {}
  /\ UNCHANGED <<reqVars, typingTimeout, incognitoChats, timers, covered, storeVars, connVars, task, now>>

\* await Message.deleteMany({chatId}); chatCleared goes to the room; after
\* the user's last expired chat the settings with expiresAt > now are kept
\* and user.save() is called.
SweepDelete ==
  /\ sweep.pc = "delete"
  /\ LET c == Head(sweep.chats) IN
     /\ msgs' = [m \in MsgIds |-> IF m \in MsgsOfChat(c) THEN NoMsg ELSE msgs[m]]
     /\ emitted' = Delivered(ToRoom(c, "chatCleared", 0, 0, "incognito_expired", Null))
     /\ sweep' = IF Tail(sweep.chats) # <<>>
                 THEN [sweep EXCEPT !.chats = Tail(@)]
                 ELSE [sweep EXCEPT !.chats = <<>>,
                                    !.doc = {y \in sweep.doc : y.expiresAt > sweep.start},
                                    !.pc = "save"]
  /\ UNCHANGED <<reqVars, typingTimeout, incognitoChats, timers, covered, userVars, nextMsgId,
                 connVars, task, now>>

\* await user.save(); a rejected save ends the pass in its catch block.
SweepSave ==
  /\ sweep.pc = "save"
  /\ emitted' = {}
  /\ IF sweep.user \in sweep.stale
     THEN /\ sweep' = DoneSweep
          /\ UNCHANGED <<incognitoChats, task>>
     ELSE /\ incognitoChats' = [incognitoChats EXCEPT ![sweep.user] = sweep.doc]
          /\ task' = StaleOthers(0, sweep.user)
          /\ sweep' = SweepNext(sweep)
  /\ UNCHANGED <<reqVars, typingTimeout, timers, covered, storeVars, connVars, now>>

\* The rejection escapes the pass and no later interval starts one.
SweepThrows_Stops ==
  /\ sweep.pc \in {"find", "delete", "save"}
  /\ sweep' = [IdleSweep EXCEPT !.last = MaxClock + 1]
  /\ emitted' = {}
  /\ UNCHANGED <<reqVars, typingTimeout, incognitoChats, timers, covered, storeVars, connVars, task, now>>

\* An awaited store operation of the pass rejects: the catch block logs it.
SweepThrows ==
  /\ sweep.pc \in {"find", "delete", "save"}
  /\ sweep' = DoneSweep
  /\ emitted' = {}
  /\ UNCHANGED <<reqVars, typingTimeout, incognitoChats, timers, covered, storeVars, connVars, task, now>>

\* One interval passes.  Handlers and callbacks take far less than an
\* interval: the clock moves on when none is in flight and none is due.
TickQuiet ==
  /\ now < MaxClock
  /\ \A t \in Tasks : task[t].pc = "idle"
  /\ sweep.pc = "idle"
  /\ ~(now % SweepEvery = 0 /\ sweep.last < now)
  /\ \A x \in timers : x.at > now
  /\ now' = now + 1
  /\ emitted' = {}
  /\ UNCHANGED <<reqVars, typingTimeout, incVars, storeVars, connVars, task>>

\* ------------------------------------------------- specifications
\* SpecAuth: UA and UB are connected on sockets 1 and 2 and their connection
\* handlers have finished; they send messages and change their relationship.
InitAuth ==
  /\ friends \in SymmetricFriendSets
  /\ blockedUsers = [u \in Users |-> {}]
  /\ isOnline = [u \in Users |-> u \in {UA, UB}]
  /\ msgs = [m \in MsgIds |-> NoMsg]
  /\ nextMsgId = 1
  /\ userSockets = [u \in Users |-> IF u = UA THEN 1 ELSE IF u = UB THEN 2
                                    ELSE NoSocket]
  /\ sockUser = [s \in Sockets |-> IF s = 1 THEN UA ELSE IF s = 2 THEN UB
                                   ELSE NoUser]
  /\ sockState = [s \in Sockets |-> IF s \in {1, 2} THEN "ready" ELSE "new"]
  /\ rooms = [s \in Sockets |-> {}]
  /\ task = [t \in Tasks |-> IdleTask]
  /\ emitted = {}
  /\ now = 1
  /\ incognitoChats = [u \in Users |-> {}]
  /\ timers = {}
  /\ sweep = IdleSweep
  /\ covered = {}
  /\ typingTimeout = [s \in Sockets |-> NoTimer]
  /\ chatRequests = [r \in RequestIds |-> NoRequest]
  /\ nextRequestId = 1

Other(s) == IF sockUser[s] = UA THEN UB ELSE UA

NextAuth ==
  \/ \E s \in Sockets, r \in Users, valid \in BOOLEAN, i \in TempIds :
        SendMessage(s, r, valid, i)
  \/ \E s \in Sockets : BlockUser(s, Other(s))
  \/ \E s \in Sockets : UnblockUser(s, Other(s))
  \/ \E s \in Sockets : RemoveFriend(s, Other(s))
  \/ \E t \in Tasks :
        \/ SendFriends(t) \/ SendBlocked(t) \/ SendBlockedBy(t)
        \/ SendCreate(t) \/ SendPopulate(t) \/ SendEmail(t)
        \/ SendIncognito(t)
        \/ BlockOwn(t) \/ BlockOther(t) \/ UnblockOwn(t)
        \/ RemoveOwn(t) \/ RemoveOther(t)

SpecAuth == InitAuth /\ [][NextAuth]_vars

\* SpecMsg: UA and UB are friends; they connect, disconnect, send and read.
InitMsg ==
  /\ Init
  /\ friends = [u \in Users |-> IF u = UA THEN {UB} ELSE IF u = UB THEN {UA}
                                ELSE {}]

NextMsg ==
  \/ Tick
  \/ \E s \in Sockets, u \in {UA, UB} : Connect(s, u)
  \/ \E s \in Sockets : Disconnect(s)
  \/ \E s \in Sockets, i \in TempIds : SendMessage(s, Other(s), TRUE, i)
  \/ \E s \in Sockets, m \in MsgIds : MarkMessageAsRead(s, m)
  \/ \E s \in Sockets : MarkChatAsRead(s, Other(s))
  \/ \E t \in Tasks :
        \/ ConnOnline(t) \/ ConnUndelivered(t) \/ ConnDeliver(t)
        \/ ConnSave(t) \/ DiscOffline(t)
        \/ SendFriends(t) \/ SendBlocked(t) \/ SendBlockedBy(t)
        \/ SendCreate(t) \/ SendPopulate(t) \/ SendEmail(t)
        \/ SendIncognito(t)
        \/ MarkFind(t) \/ MarkUpdate(t) \/ ChatReadUpdate(t)

SpecMsg == InitMsg /\ [][NextMsg]_vars

\* SpecConn: connections come and go.
NextConn ==
  \/ \E s \in Sockets, u \in Users : Connect(s, u)
  \/ \E s \in Sockets : Disconnect(s)
  \/ \E s \in Sockets : Drop(s)
  \/ \E t \in Tasks :
        \/ ConnOnline(t) \/ ConnUndelivered(t) \/ ConnDeliver(t)
        \/ DiscOffline(t)

SpecConn == Init /\ [][NextConn]_vars

\* SpecDeliver: UA and UB are friends; they connect, disconnect and send.
\* Every awaited store operation of a running handler eventually returns.
NextDeliver ==
  \/ \E s \in Sockets, u \in {UA, UB} : Connect(s, u)
  \/ \E s \in Sockets : Disconnect(s)
  \/ \E s \in Sockets, i \in TempIds : SendMessage(s, Other(s), TRUE, i)
  \/ \E t \in Tasks :
        \/ ConnOnline(t) \/ ConnUndelivered(t) \/ ConnDeliver(t)
        \/ ConnSave(t) \/ DiscOffline(t)
        \/ SendFriends(t) \/ SendBlocked(t) \/ SendBlockedBy(t)
        \/ SendCreate(t) \/ SendPopulate(t) \/ SendEmail(t)
        \/ SendIncognito(t)

AwaitReturns(t) ==
  \/ ConnOnline(t) \/ ConnUndelivered(t) \/ ConnDeliver(t) \/ ConnSave(t)
  \/ DiscOffline(t)
  \/ SendFriends(t) \/ SendBlocked(t) \/ SendBlockedBy(t) \/ SendCreate(t)
  \/ SendPopulate(t) \/ SendEmail(t) \/ SendIncognito(t)

SpecDeliver ==
  /\ InitMsg
  /\ [][NextDeliver]_vars
  /\ \A t \in Tasks : WF_vars(AwaitReturns(t))

\* SpecRoom: UA and UB are friends and connected; they join rooms, send and
\* leave.
InitRoom ==
  /\ InitAuth
  /\ friends = [u \in Users |-> IF u = UA THEN {UB} ELSE IF u = UB THEN {UA}
                                ELSE {}]

NextRoom ==
  \/ \E s \in Sockets, c \in {getChatId(UA, UB), getChatId(UA, UC)} :
        JoinChat(s, c)
  \/ \E s \in Sockets : Disconnect(s)
  \/ \E s \in Sockets, i \in TempIds : SendMessage(s, Other(s), TRUE, i)
  \/ \E t \in Tasks :
        \/ DiscOffline(t)
        \/ SendFriends(t) \/ SendBlocked(t) \/ SendBlockedBy(t)
        \/ SendCreate(t) \/ SendPopulate(t) \/ SendEmail(t)
        \/ SendIncognito(t)

SpecRoom == InitRoom /\ [][NextRoom]_vars

\* SpecFail: UA and UB are connected; UA is a friend of UB and of UC, who is
\* not connected.  They send, and any awaited store operation may reject.
InitFail ==
  /\ InitAuth
  /\ friends = [u \in Users |-> IF u = UA THEN {UB, UC} ELSE {UA}]

NextFail ==
  \/ \E s \in Sockets, r \in Users, valid \in BOOLEAN, i \in TempIds :
        SendMessage(s, r, valid, i)
  \/ \E t \in Tasks :
        \/ SendFriends(t) \/ SendBlocked(t) \/ SendBlockedBy(t)
        \/ SendCreate(t) \/ SendPopulate(t) \/ SendEmail(t)
        \/ SendIncognito(t)
        \/ SendThrows(t)

SpecFail == InitFail /\ [][NextFail]_vars

\* SpecLoad: UA and UB are connected; they load each other's conversation,
\* send, and change their relationship.
NextLoad ==
  \/ \E s \in Sockets, o \in Users : LoadMessages(s, o)
  \/ \E s \in Sockets : SendMessage(s, Other(s), TRUE, 1)
  \/ \E s \in Sockets : BlockUser(s, Other(s))
  \/ \E s \in Sockets : UnblockUser(s, Other(s))
  \/ \E s \in Sockets : RemoveFriend(s, Other(s))
  \/ \E t \in Tasks :
        \/ LoadFriends(t) \/ LoadBlocked(t) \/ LoadBlockedBy(t) \/ LoadFind(t)
        \/ SendFriends(t) \/ SendBlocked(t) \/ SendBlockedBy(t)
        \/ SendCreate(t) \/ SendPopulate(t)
        \/ SendIncognito(t)
        \/ BlockOwn(t) \/ BlockOther(t) \/ UnblockOwn(t)
        \/ RemoveOwn(t) \/ RemoveOther(t)

SpecLoad == InitAuth /\ [][NextLoad]_vars

\* SpecGuard: clients open connections with any token; admitted connections
\* run their connection handler, join rooms and leave.
NextGuard ==
  \/ \E s \in Sockets, token \in Tokens : Handshake(s, token)
  \/ \E s \in Sockets : Disconnect(s)
  \/ \E s \in Sockets : Drop(s)
  \/ \E s \in Sockets : JoinChat(s, getChatId(UA, UB))
  \/ \E t \in Tasks :
        \/ AuthFindUser(t) \/ AuthThrows(t)
        \/ ConnOnline(t) \/ ConnUndelivered(t) \/ ConnDeliver(t)
        \/ DiscOffline(t)

SpecGuard == Init /\ [][NextGuard]_vars

\* SpecChat: UA and UC are connected, UB is not; UA is a friend of both.
\* They join rooms, send, mark messages read and clear chats.
InitChat ==
  /\ friends = [u \in Users |-> IF u = UA THEN {UB, UC} ELSE {UA}]
  /\ blockedUsers = [u \in Users |-> {}]
  /\ isOnline = [u \in Users |-> u \in {UA, UC}]
  /\ msgs = [m \in MsgIds |-> NoMsg]
  /\ nextMsgId = 1
  /\ userSockets = [u \in Users |-> IF u = UA THEN 1 ELSE IF u = UC THEN 2
                                    ELSE NoSocket]
  /\ sockUser = [s \in Sockets |-> IF s = 1 THEN UA ELSE IF s = 2 THEN UC
                                   ELSE NoUser]
  /\ sockState = [s \in Sockets |-> IF s \in {1, 2} THEN "ready" ELSE "new"]
  /\ rooms = [s \in Sockets |-> {}]
  /\ task = [t \in Tasks |-> IdleTask]
  /\ emitted = {}
  /\ now = 1
  /\ incognitoChats = [u \in Users |-> {}]
  /\ timers = {}
  /\ sweep = IdleSweep
  /\ covered = {}
  /\ typingTimeout = [s \in Sockets |-> NoTimer]
  /\ chatRequests = [r \in RequestIds |-> NoRequest]
  /\ nextRequestId = 1

NextChat ==
  \/ \E s \in Sockets : JoinChat(s, getChatId(UA, UB))
  \/ \E s \in Sockets : \E r \in Users \ {sockUser[s]} : SendMessage(s, r, TRUE, 1)
  \/ \E s \in Sockets, m \in MsgIds : MarkMessageAsRead(s, m)
  \/ \E s \in Sockets : \E o \in Users \ {sockUser[s]} : MarkChatAsRead(s, o)
  \/ \E s \in Sockets : \E o \in Users \ {sockUser[s]} : ClearChat(s, o)
  \/ \E t \in Tasks :
        \/ SendFriends(t) \/ SendBlocked(t) \/ SendBlockedBy(t)
        \/ SendCreate(t) \/ SendPopulate(t) \/ SendEmail(t)
        \/ SendIncognito(t)
        \/ MarkFind(t) \/ MarkUpdate(t) \/ ChatReadUpdate(t)
        \/ ClearDelete(t)

SpecChat == InitChat /\ [][NextChat]_vars

\* SpecIncog: UA and UB are connected friends.  UA joins their room and
\* enables incognito on their conversation, and both send to each other,
\* while deletion timers fire, the sweep runs at every interval, and time
\* passes.
NextIncog ==
  \/ JoinChat(userSockets[UA], getChatId(UA, UB))
  \/ \E d \in Durations : ToggleIncognito(userSockets[UA], UB, TRUE, d)
  \/ \E s \in Sockets : SendMessage(s, Other(s), TRUE, 1)
  \/ \E t \in Tasks :
        \/ ToggleFind(t) \/ ToggleSave(t) \/ ToggleExisting(t)
        \/ SendFriends(t) \/ SendBlocked(t) \/ SendBlockedBy(t)
        \/ SendCreate(t) \/ SendPopulate(t)
        \/ SendIncognito(t) \/ SendIncSave(t)
  \/ \E x \in timers : TimerDelete(x)
  \/ SweepStart \/ SweepFind \/ SweepDelete \/ SweepSave
  \/ TickQuiet

SpecIncog == InitRoom /\ [][NextIncog]_vars

\* SpecSweep: UA and UC are connected, UB is not; UA is a friend of both.
\* UA enables incognito on its two conversations and sends into them, while
\* deletion timers fire, the sweep runs at every interval, and time passes
\* up to MaxTime.
NextSweep ==
  \/ \E o \in friends[UA], d \in Durations :
        ToggleIncognito(userSockets[UA], o, TRUE, d)
  \/ \E r \in friends[UA] : SendMessage(userSockets[UA], r, TRUE, 1)
  \/ \E t \in Tasks :
        \/ ToggleFind(t) \/ ToggleSave(t) \/ ToggleExisting(t)
        \/ SendFriends(t) \/ SendBlocked(t) \/ SendBlockedBy(t)
        \/ SendCreate(t) \/ SendPopulate(t) \/ SendEmail(t)
        \/ SendIncognito(t) \/ SendIncSave(t)
  \/ \E x \in timers : TimerDelete(x)
  \/ SweepStart \/ SweepFind \/ SweepDelete \/ SweepSave
  \/ (now < MaxTime /\ TickQuiet)

SpecSweep == InitChat /\ [][NextSweep]_vars

\* SpecRetry: UA and UB are connected friends.  UA enables incognito once, in
\* the first interval, and UB sends.  Store operations of the sweep may
\* reject up to time MaxTime and succeed from then on.  The interval timer
\* keeps firing, every awaited operation returns, and time passes.
NextRetry ==
  \/ /\ now = 1
     /\ incognitoChats[UA] = {}
     /\ \A t \in Tasks : task[t].kind # "toggleIncognito"
     /\ ToggleIncognito(userSockets[UA], UB, TRUE, 1)
  \/ SendMessage(userSockets[UB], UA, TRUE, 1)
  \/ \E t \in Tasks :
        \/ ToggleFind(t) \/ ToggleSave(t) \/ ToggleExisting(t)
        \/ SendFriends(t) \/ SendBlocked(t) \/ SendBlockedBy(t)
        \/ SendCreate(t) \/ SendPopulate(t)
        \/ SendIncognito(t)
  \/ \E x \in timers : TimerDelete(x)
  \/ SweepStart \/ SweepFind \/ SweepDelete \/ SweepSave
  \/ (now <= MaxTime /\ SweepThrows)
  \/ TickQuiet

HandlerReturns(t) ==
  \/ ToggleFind(t) \/ ToggleSave(t) \/ ToggleExisting(t)
  \/ SendFriends(t) \/ SendBlocked(t) \/ SendBlockedBy(t)
  \/ SendCreate(t) \/ SendPopulate(t)
  \/ SendIncognito(t)

SpecRetry ==
  /\ InitRoom
  /\ [][NextRetry]_vars
  /\ \A t \in Tasks : WF_vars(HandlerReturns(t))
  /\ WF_vars(\E x \in timers : TimerDelete(x))
  /\ WF_vars(SweepStart)
  /\ WF_vars(SweepFind)
  /\ WF_vars(SweepDelete)
  /\ WF_vars(SweepSave)
  /\ WF_vars(TickQuiet)

\* SpecGone: UA and UB are connected friends.  UA joins their room, enables
\* incognito, sends and clears the conversation, while deletion timers fire,
\* the sweep runs at every interval, and time passes up to MaxTime.
NextGone ==
  \/ JoinChat(userSockets[UA], getChatId(UA, UB))
  \/ \E d \in Durations : ToggleIncognito(userSockets[UA], UB, TRUE, d)
  \/ SendMessage(userSockets[UA], UB, TRUE, 1)
  \/ ClearChat(userSockets[UA], UB)
  \/ \E t \in Tasks :
        \/ ToggleFind(t) \/ ToggleSave(t) \/ ToggleExisting(t)
        \/ SendFriends(t) \/ SendBlocked(t) \/ SendBlockedBy(t)
        \/ SendCreate(t) \/ SendPopulate(t)
        \/ SendIncognito(t) \/ SendIncSave(t)
        \/ ClearDelete(t)
  \/ \E x \in timers : TimerDelete(x)
  \/ SweepStart \/ SweepFind \/ SweepDelete \/ SweepSave
  \/ (now < MaxTime /\ TickQuiet)

SpecGone == InitRoom /\ [][NextGone]_vars

\* SpecOff: UA and UB are connected friends.  UA enables and disables
\* incognito and sends, while deletion timers fire, the sweep runs at every
\* interval, and time passes up to MaxTime.
NextOff ==
  \/ \E enabled \in BOOLEAN, d \in Durations :
        ToggleIncognito(userSockets[UA], UB, enabled, d)
  \/ SendMessage(userSockets[UA], UB, TRUE, 1)
  \/ \E t \in Tasks :
        \/ ToggleFind(t) \/ ToggleSave(t) \/ ToggleExisting(t)
        \/ SendFriends(t) \/ SendBlocked(t) \/ SendBlockedBy(t)
        \/ SendCreate(t) \/ SendPopulate(t)
        \/ SendIncognito(t) \/ SendIncSave(t)
  \/ \E x \in timers : TimerDelete(x)
  \/ SweepStart \/ SweepFind \/ SweepDelete \/ SweepSave
  \/ (now < MaxTime /\ TickQuiet)

SpecOff == InitRoom /\ [][NextOff]_vars

\* SpecSched: UA and UB are connected friends.  UA enables incognito, for a
\* duration of a few intervals or for one longer than setTimeout can hold,
\* and sends, while deletion timers fire, the sweep runs at every interval,
\* and time passes up to MaxTime.
NextSched ==
  \/ \E d \in Durations \cup {LongDur} :
        ToggleIncognito(userSockets[UA], UB, TRUE, d)
  \/ SendMessage(userSockets[UA], UB, TRUE, 1)
  \/ \E t \in Tasks :
        \/ ToggleFind(t) \/ ToggleSave(t) \/ ToggleExisting(t)
        \/ SendFriends(t) \/ SendBlocked(t) \/ SendBlockedBy(t)
        \/ SendCreate(t) \/ SendPopulate(t)
        \/ SendIncognito(t) \/ SendIncSave(t)
  \/ \E x \in timers : TimerDelete(x)
  \/ SweepStart \/ SweepFind \/ SweepDelete \/ SweepSave
  \/ (now < MaxTime /\ TickQuiet)

SpecSched == InitRoom /\ [][NextSched]_vars

\* SpecTwice: UA and UB are connected friends.  UA enables incognito for a
\* short duration and then, perhaps before the first request has finished,
\* for a long one, so that the long enable is always the latest; the sweep
\* runs at every interval, and time passes.
ToggleInFlight(d) ==
  \E t \in Tasks :
     /\ task[t].kind = "toggleIncognito" /\ task[t].dur = d
     /\ task[t].pc \in {"findUser", "userSave"}

NextTwice ==
  \/ /\ incognitoChats[UA] = {}
     /\ \A t \in Tasks : task[t].kind # "toggleIncognito"
     /\ ToggleIncognito(userSockets[UA], UB, TRUE, 1)
  \/ /\ ~ToggleInFlight(LongDur)
     /\ \A x \in incognitoChats[UA] : x.expiresAt <= MaxDelay
     /\ ToggleInFlight(1) \/ incognitoChats[UA] # {}
     /\ ToggleIncognito(userSockets[UA], UB, TRUE, LongDur)
  \/ \E t \in Tasks : ToggleFind(t) \/ ToggleSave(t) \/ ToggleExisting(t)
  \/ SweepStart \/ SweepFind \/ SweepDelete \/ SweepSave
  \/ TickQuiet

SpecTwice == InitRoom /\ [][NextTwice]_vars

\* SpecTyping: UA and UB are connected (handlers of part_004).  They signal
\* typing and stopTyping to any other user and disconnect, while auto-stop
\* timers fire.
NextTyping ==
  \/ \E s \in Sockets : \E r \in Users \ {sockUser[s]} : UserTyping(s, r)
  \/ \E s \in Sockets : \E r \in Users \ {sockUser[s]} : StopTyping(s, r)
  \/ \E x \in timers : TypingFire(x)
  \/ \E s \in Sockets : DisconnectTyping(s)
  \/ \E t \in Tasks : DiscOffline(t)

SpecTyping == InitRoom /\ [][NextTyping]_vars

\* SpecList: UA and UB are connected friends.  They send to each other and
\* load their conversation while time passes.
NextList ==
  \/ \E s \in Sockets : SendMessage(s, Other(s), TRUE, 1)
  \/ \E s \in Sockets : LoadMessages(s, Other(s))
  \/ \E t \in Tasks :
        \/ SendFriends(t) \/ SendBlocked(t) \/ SendBlockedBy(t)
        \/ SendCreate(t) \/ SendPopulate(t)
        \/ SendIncognito(t)
        \/ LoadFriends(t) \/ LoadBlocked(t) \/ LoadBlockedBy(t) \/ LoadFind(t)
  \/ Tick

SpecList == InitRoom /\ [][NextList]_vars

\* SpecRace: UA and UB are friends; they connect and send while the
\* connection handlers run.  No connection is closed.
NextRace ==
  \/ \E s \in Sockets, u \in {UA, UB} : Connect(s, u)
  \/ \E s \in Sockets, i \in TempIds : SendMessage(s, Other(s), TRUE, i)
  \/ \E t \in Tasks :
        \/ ConnOnline(t) \/ ConnUndelivered(t) \/ ConnDeliver(t)
        \/ ConnSave(t)
        \/ SendFriends(t) \/ SendBlocked(t) \/ SendBlockedBy(t)
        \/ SendCreate(t) \/ SendPopulate(t) \/ SendEmail(t)
        \/ SendIncognito(t)

SpecRace == InitMsg /\ [][NextRace]_vars

\* SpecFriend: UA and UB are connected and not yet friends.  They send and
\* accept chat requests, block and unblock each other and remove each other
\* as friends.
InitReq ==
  /\ InitAuth
  /\ friends = [u \in Users |-> {}]

NextFriend ==
  \/ \E s \in Sockets : SendChatRequest(s, Other(s))
  \/ \E s \in Sockets, r \in RequestIds : AcceptChatRequest(s, r)
  \/ \E s \in Sockets : BlockUser(s, Other(s))
  \/ \E s \in Sockets : UnblockUser(s, Other(s))
  \/ \E s \in Sockets : RemoveFriend(s, Other(s))
  \/ \E t \in Tasks :
        \/ ReqFriends(t) \/ ReqBlocked(t) \/ ReqExisting(t) \/ ReqCreate(t)
        \/ ReqPopulate(t)
        \/ AcceptFind(t) \/ AcceptSave(t) \/ AcceptOwn(t) \/ AcceptOther(t)
        \/ AcceptPopulate(t)
        \/ BlockOwn(t) \/ BlockOther(t) \/ UnblockOwn(t)
        \/ RemoveOwn(t) \/ RemoveOther(t)

SpecFriend == InitReq /\ [][NextFriend]_vars

\* SpecReq: UA and UB are connected and not yet friends.  They send, accept,
\* reject and cancel chat requests.
NextReq ==
  \/ \E s \in Sockets : SendChatRequest(s, Other(s))
  \/ \E s \in Sockets, r \in RequestIds : AcceptChatRequest(s, r)
  \/ \E s \in Sockets, r \in RequestIds : RejectChatRequest(s, r)
  \/ \E s \in Sockets, r \in RequestIds : CancelChatRequest(s, r)
  \/ \E t \in Tasks :
        \/ ReqFriends(t) \/ ReqBlocked(t) \/ ReqExisting(t) \/ ReqCreate(t)
        \/ ReqPopulate(t)
        \/ AcceptFind(t) \/ AcceptSave(t) \/ AcceptOwn(t) \/ AcceptOther(t)
        \/ AcceptPopulate(t)
        \/ RejectFind(t) \/ RejectSave(t)
        \/ CancelFind(t) \/ CancelDelete(t)

SpecReq == InitReq /\ [][NextReq]_vars

\* ------------------------------------------------------------ claims
Moves(t) == task'[t] # task[t]

Exists(m) == msgs[m] # NoMsg

\* C1: a sendMessage whose receiver is not in the sender's friend set when
\* the handler reads it ends there and leaves the message collection as it
\* was.
C1_NotFriendsNoMessage ==
  [][\A t \in Tasks :
       (/\ Running(t, "sendMessage", "friends")
        /\ task[t].peer \notin friends[task[t].user]
        /\ Moves(t))
       => /\ msgs' = msgs
          /\ nextMsgId' = nextMsgId
          /\ task'[t].pc = "idle"]_vars

C1_Witness ==
  /\ \E e \in emitted :
        /\ e.ev = "sendMessageError"
        /\ e.tag = "requiresFriendship"
        /\ \E r \in Users \ {sockUser[e.to]} : r \notin friends[sockUser[e.to]]
  /\ \A m \in MsgIds : ~Exists(m)

\* C2: a sendMessage that reads a block, of the receiver by the sender or of
\* the sender by the receiver, ends at the block check and leaves the message
\* collection as it was, also when the friendship check has passed.
C2_BlockedNoMessage ==
  [][\A t \in Tasks :
       /\ (/\ Running(t, "sendMessage", "blocked")
           /\ task[t].peer \in blockedUsers[task[t].user]
           /\ Moves(t))
          => /\ task'[t].blocked
             /\ task'[t].pc = "blockedBy"
             /\ msgs' = msgs
       /\ (/\ Running(t, "sendMessage", "blockedBy")
           /\ (task[t].blocked \/ task[t].user \in blockedUsers[task[t].peer])
           /\ Moves(t))
          => /\ msgs' = msgs
             /\ nextMsgId' = nextMsgId
             /\ task'[t].pc = "idle"]_vars

C2_Witness ==
  \E e \in emitted :
     /\ e.ev = "sendMessageError"
     /\ e.tag = "isBlocked"
     /\ \E r \in Users : /\ r \in blockedUsers[sockUser[e.to]]
                         /\ sockUser[e.to] \in friends[r]

\* C3: with the receiver's block of the sender in place and no other handler
\* running, a sendMessage that is refused is refused with isBlocked = true,
\* and creates no message.
C3_BlockedSenderToldBlocked ==
  [][\A t \in Tasks :
       (/\ task[t].kind = "sendMessage"
        /\ task[t].user \in blockedUsers[task[t].peer]
        /\ \A u \in Tasks \ {t} : task[u].pc = "idle"
        /\ task[t].pc \in {"friends", "blocked", "blockedBy"}
        /\ Moves(t)
        /\ task'[t].pc = "idle")
       => /\ \E e \in emitted' : /\ e.to = task[t].sock
                                 /\ e.ev = "sendMessageError"
                                 /\ e.tempId = task[t].tempId
                                 /\ e.tag = "isBlocked"
          /\ msgs' = msgs]_vars

\* C4: the document sendMessage creates has isDelivered and a deliveredAt
\* exactly when the registry held an entry for the receiver at the lookup,
\* and always isRead = false and readAt = null.
C4_DeliveredIffBoundAtSend ==
  [][\A t \in Tasks :
       /\ (/\ Running(t, "sendMessage", "blockedBy")
           /\ Moves(t)
           /\ task'[t].pc = "create")
          => /\ (task'[t].rsock # NoSocket) = (userSockets[task[t].peer] # NoSocket)
             /\ (task'[t].at # Null) = (userSockets[task[t].peer] # NoSocket)
       /\ (/\ Running(t, "sendMessage", "create")
           /\ Moves(t))
          => /\ msgs'[nextMsgId] # NoMsg
             /\ msgs'[nextMsgId].isDelivered = (task[t].rsock # NoSocket)
             /\ (msgs'[nextMsgId].deliveredAt # Null) = (task[t].rsock # NoSocket)
             /\ msgs'[nextMsgId].deliveredAt = task[t].at
             /\ msgs'[nextMsgId].isRead = FALSE
             /\ msgs'[nextMsgId].readAt = Null]_vars

C4_Witness ==
  \E m, n \in MsgIds :
     /\ Exists(m) /\ Exists(n)
     /\ msgs[m].isDelivered /\ msgs[m].deliveredAt # Null
     /\ ~msgs[n].isDelivered /\ msgs[n].deliveredAt = Null
     /\ ~msgs[m].isRead /\ ~msgs[n].isRead

\* C5: every persisted message has a deliveredAt iff it is delivered and a
\* readAt iff it is read.
C5_TimestampIffFlag ==
  \A m \in MsgIds :
     Exists(m) => /\ (msgs[m].deliveredAt # Null) = msgs[m].isDelivered
                  /\ (msgs[m].readAt # Null) = msgs[m].isRead

C5_Witness ==
  \E m \in MsgIds :
     /\ Exists(m)
     /\ msgs[m].isRead /\ msgs[m].readAt # Null
     /\ msgs[m].isDelivered /\ msgs[m].deliveredAt > msgs[m].createdAt

\* C6: once a message is delivered (read) it stays delivered (read) and its
\* deliveredAt (readAt) is never written again.
C6_FlagsAndTimestampsWrittenOnce ==
  [][\A m \in MsgIds :
       (Exists(m) /\ msgs'[m] # NoMsg)
       => /\ msgs[m].isDelivered
             => /\ msgs'[m].isDelivered
                /\ msgs'[m].deliveredAt = msgs[m].deliveredAt
          /\ msgs[m].isRead
             => /\ msgs'[m].isRead
                /\ msgs'[m].readAt = msgs[m].readAt]_vars

\* C7: getChatId gives the same id for a pair of users in either order, and
\* the chat id a sendMessage computes is the one its receiver computes.
C7_ChatIdSymmetric ==
  /\ \A x \in Users, y \in Users : getChatId(x, y) = getChatId(y, x)
  /\ \A t \in Tasks :
        (task[t].kind = "sendMessage" /\ task[t].chatId # NoChat)
        => task[t].chatId = getChatId(task[t].peer, task[t].user)

C7_Witness ==
  \E m \in MsgIds :
     /\ Exists(m)
     /\ msgs[m].sender = UB
     /\ msgs[m].chatId = UA \o <<Sep>> \o UB

\* C8: every user with a live connection has a registry entry.
C8_LiveUserIsBound ==
  \A s \in Sockets :
     sockState[s] \in {"open", "ready"} => userSockets[sockUser[s]] # NoSocket

\* C9: a message is not persisted as delivered when the registry holds no
\* entry for its receiver at the moment it is persisted.
C9_NoStaleDelivered ==
  [][\A t \in Tasks :
       (/\ Running(t, "sendMessage", "create")
        /\ Moves(t)
        /\ userSockets[task[t].peer] = NoSocket)
       => msgs'[nextMsgId].isDelivered = FALSE]_vars

\* C10: a message sent while its receiver has no registry entry is persisted
\* undelivered; once the receiver's connection handler runs, the message
\* becomes delivered with a deliveredAt, in a step that emits
\* messageDelivered for it to the sender's registered connection.
Receiver(m) ==
  CHOOSE u \in Users : u # msgs[m].sender /\ msgs[m].chatId = getChatId(u, msgs[m].sender)

AwaitsDelivery(m) ==
  /\ Exists(m)
  /\ ~msgs[m].isDelivered
  /\ \E t \in Tasks : /\ Running(t, "connection", "online")
                      /\ task[t].user = Receiver(m)

DeliveredByPass(m) ==
  /\ Exists(m)
  /\ msgs[m].isDelivered
  /\ msgs[m].deliveredAt # Null
  /\ \E t \in Tasks : /\ Running(t, "connection", "deliver")
                      /\ task[t].mid = m
  /\ (/\ userSockets[msgs[m].sender] # NoSocket
      /\ sockState[userSockets[msgs[m].sender]] \in {"open", "ready"})
     => Ev(userSockets[msgs[m].sender], "messageDelivered", m, 0, "",
           msgs[m].deliveredAt) \in emitted

C10_OfflineMessageDeliveredOnConnect ==
  /\ [][\A t \in Tasks :
          (/\ Running(t, "sendMessage", "create")
           /\ Moves(t)
           /\ task[t].rsock = NoSocket)
          => ~msgs'[nextMsgId].isDelivered]_vars
  /\ \A m \in MsgIds : AwaitsDelivery(m) ~> DeliveredByPass(m)

C10_Witness ==
  \E m \in MsgIds :
     /\ DeliveredByPass(m)
     /\ userSockets[msgs[m].sender] # NoSocket
     /\ Ev(userSockets[msgs[m].sender], "messageDelivered", m, 0, "",
           msgs[m].deliveredAt) \in emitted

\* C11 as stated: a sendMessage whose lookup found the receiver bound, at the
\* step after populate, makes the sender's connection receive messageSent
\* with the tempId and isDelivered = true and the receiver's connection
\* receive receiveMessage for the message with isDelivered = true.
C11_ReceiverGetsReceiveMessage ==
  [][\A t \in Tasks :
       (/\ Running(t, "sendMessage", "populate")
        /\ task[t].rsock # NoSocket
        /\ sockState[task[t].sock] = "ready"
        /\ sockState[task[t].rsock] = "ready"
        /\ Moves(t))
       => /\ Ev(task[t].sock, "messageSent", task[t].mid, task[t].tempId,
                "delivered", task[t].at) \in emitted'
          /\ RoomEv(task[t].rsock, task[t].chatId, "receiveMessage",
                    task[t].mid, task[t].tempId, "delivered", task[t].at)
               \in emitted']_vars

\* C11 amended: a sendMessage that read no block and found the receiver
\* bound goes on to create the message with that lookup's answer; at the
\* step after populate the sender's connection receives messageSent with the
\* tempId and isDelivered = true, the connection registered for the receiver
\* receives newMessageForSidebar for the message, and receiveMessage reaches
\* exactly the open connections that have joined the conversation's room.
C11_AckAndRoomBroadcast ==
  [][\A t \in Tasks :
       /\ (/\ Running(t, "sendMessage", "blockedBy")
           /\ ~task[t].blocked
           /\ task[t].user \notin blockedUsers[task[t].peer]
           /\ userSockets[task[t].peer] # NoSocket
           /\ Moves(t))
          => /\ task'[t].pc = "create"
             /\ task'[t].rsock = userSockets[task[t].peer]
             /\ task'[t].chatId = getChatId(task[t].user, task[t].peer)
       /\ (/\ Running(t, "sendMessage", "populate")
           /\ task[t].rsock # NoSocket
           /\ Moves(t))
          => /\ sockState[task[t].sock] = "ready"
                => Ev(task[t].sock, "messageSent", task[t].mid,
                      task[t].tempId, "delivered", task[t].at) \in emitted'
             /\ sockState[task[t].rsock] = "ready"
                => Ev(task[t].rsock, "newMessageForSidebar", task[t].mid,
                      task[t].tempId, "delivered", task[t].at) \in emitted'
             /\ \A s \in Sockets :
                   (RoomEv(s, task[t].chatId, "receiveMessage", task[t].mid,
                           task[t].tempId, "delivered", task[t].at)
                      \in emitted')
                   <=> (/\ task[t].chatId \in rooms[s]
                        /\ sockState[s] = "ready")]_vars

C11_Witness ==
  \E m \in MsgIds, s, r \in Sockets, i \in TempIds :
     /\ s # r
     /\ Exists(m)
     /\ sockUser[s] = msgs[m].sender
     /\ userSockets[Other(s)] = r
     /\ msgs[m].chatId \in rooms[r]
     /\ msgs[m].chatId \notin rooms[s]
     /\ Ev(s, "messageSent", m, i, "delivered", msgs[m].deliveredAt) \in emitted
     /\ RoomEv(r, msgs[m].chatId, "receiveMessage", m, i, "delivered",
               msgs[m].deliveredAt) \in emitted
     /\ \A e \in emitted : e.ev = "receiveMessage" => e.to = r

\* A sendMessage handler is past its acknowledgements (messageSent has been
\* emitted) exactly when it waits for getIncognitoStatus.
Acked(t) == Running(t, "sendMessage", "incognito")

ErrorTo(t, evs) ==
  \E e \in evs : /\ e.to = task[t].sock
                 /\ e.ev = "sendMessageError"
                 /\ e.tempId = task[t].tempId

\* C12: the step that acknowledges a sendMessage emits messageSent with the
\* request's tempId and the persisted message id and no sendMessageError, and
\* a handler that ends has produced exactly one of messageSent and
\* sendMessageError for its tempId on the sender's connection.
C12_ExactlyOneOutcome ==
  [][\A t \in Tasks :
       /\ (/\ task[t].kind = "sendMessage"
           /\ Moves(t)
           /\ task'[t].pc = "incognito")
          => /\ \E e \in emitted' : /\ e.to = task[t].sock
                                    /\ e.ev = "messageSent"
                                    /\ e.tempId = task[t].tempId
                                    /\ e.mid = task[t].mid
                                    /\ msgs[e.mid] # NoMsg
             /\ ~ErrorTo(t, emitted')
       /\ (/\ task[t].kind = "sendMessage"
           /\ Moves(t)
           /\ task'[t].pc = "idle")
          => (Acked(t) # ErrorTo(t, emitted'))]_vars

\* C13: a sendMessage handler that answers sendMessageError has persisted no
\* message.
C13_ErrorLeavesNoMessage ==
  [][\A t \in Tasks :
       (/\ task[t].kind = "sendMessage"
        /\ Moves(t)
        /\ ErrorTo(t, emitted'))
       => /\ task[t].mid = 0
          /\ msgs' = msgs]_vars

BlockBetween(u, v) == v \in blockedUsers[u] \/ u \in blockedUsers[v]

LoadErrors(t, evs) ==
  {e \in evs : e.to = task[t].sock /\ e.ev = "messagesLoadError"}

\* C14: a loadMessages answers messagesLoaded only after it has read that
\* the requester lists the other user as a friend and that neither blocks
\* the other; a read that finds otherwise ends the handler with exactly one
\* messagesLoadError and no other event, carrying no messages, flagged
\* requiresFriendship when they are not friends and isBlocked when a block
\* exists; no step of the handler changes the store.
C14_LoadRefusalIsTyped ==
  [][\A t \in Tasks :
       (task[t].kind = "loadMessages" /\ Moves(t))
       => LET u == task[t].user
              v == task[t].peer
              refused ==
                \/ task[t].pc = "friends" /\ v \notin friends[u]
                \/ task[t].pc = "blockedBy"
                   /\ (task[t].blocked \/ u \in blockedUsers[v])
          IN /\ <<friends, blockedUsers, isOnline, msgs, nextMsgId>>' =
                  <<friends, blockedUsers, isOnline, msgs, nextMsgId>>
             /\ (\E e \in emitted' : e.ev = "messagesLoaded")
                => task[t].pc = "find"
             /\ task'[t].pc = "find" => (task[t].pc = "blockedBy" /\ ~refused)
             /\ task'[t].pc = "blockedBy"
                => /\ task[t].pc = "blocked"
                   /\ task'[t].blocked = (v \in blockedUsers[u])
             /\ task'[t].pc = "blocked" => (task[t].pc = "friends" /\ ~refused)
             /\ refused
                => /\ task'[t].pc = "idle"
                   /\ Cardinality(emitted') = 1
                   /\ Cardinality(LoadErrors(t, emitted')) = 1
                   /\ \A e \in emitted' :
                         /\ e.list = <<>>
                         /\ (task[t].pc = "friends" /\ v \notin friends[u])
                            => e.tag = "requiresFriendship"
                         /\ (task[t].blocked \/ BlockBetween(u, v))
                            => e.tag = "isBlocked"]_vars

\* A step that refuses connection s and does nothing else.
RefusalOnly(s) ==
  /\ sockState' = [sockState EXCEPT ![s] = "refused"]
  /\ userSockets' = userSockets
  /\ <<friends, blockedUsers, isOnline, msgs, nextMsgId>>' =
       <<friends, blockedUsers, isOnline, msgs, nextMsgId>>
  /\ sockUser' = sockUser
  /\ rooms' = rooms
  /\ emitted' = {}
  /\ \A t \in Tasks : \/ task'[t] = task[t]
                       \/ /\ Running(t, "auth", "findUser")
                          /\ task[t].sock = s
                          /\ task'[t] = IdleTask
  /\ \A t \in Tasks : task'[t].sock # s

\* C15: a connection attempt whose token is missing or fails verification,
\* or whose user lookup finds no user, is refused in a step that changes
\* nothing else (no registry entry, no store write, no event, no handler
\* started); a refused connection stays refused, is never bound in the
\* registry, never receives an event and never has a handler running.
C15_RefusedChangesNothing ==
  /\ [][\A s \in Sockets, token \in Tokens :
          (~(token.present /\ token.verifies) /\ Handshake(s, token))
          => RefusalOnly(s)]_vars
  /\ [][\A t \in Tasks :
          (/\ Running(t, "auth", "findUser")
           /\ task[t].user \notin Users
           /\ Moves(t))
          => RefusalOnly(task[t].sock)]_vars
  /\ [][\A s \in Sockets :
          sockState[s] = "refused"
          => /\ sockState'[s] = "refused"
             /\ \A t \in Tasks : task'[t].sock # s
             /\ \A e \in emitted' : e.to # s
             /\ rooms'[s] = {}
             /\ \A u \in Users : userSockets'[u] # s]_vars

C15_Witness ==
  \E s, r \in Sockets :
     /\ sockState[s] = "refused"
     /\ sockState[r] = "ready"
     /\ userSockets[sockUser[r]] = r
     /\ isOnline[sockUser[r]]
     /\ sockUser[s] = NoUser
     /\ \A u \in Users : userSockets[u] # s

\* The two users a conversation id encodes.
Participants(chatId) ==
  {u \in Users : \E v \in Users : chatId = getChatId(u, v)}

\* C16: a markMessageAsRead handler whose user is not one of the two
\* participants of the message's chat changes no message and emits no
\* messageRead at any of its steps; a markChatAsRead handler of user U for
\* other user V changes only messages of the chat of U and V.
C16_ReadOnlyByParticipants ==
  [][\A t \in Tasks :
       /\ (/\ task[t].kind = "markMessageAsRead"
           /\ Moves(t)
           /\ msgs[task[t].mid] # NoMsg
           /\ task[t].user \notin Participants(msgs[task[t].mid].chatId))
          => /\ msgs' = msgs
             /\ \A e \in emitted' : e.ev # "messageRead"
             /\ task'[t].pc = "idle"
       /\ (/\ task[t].kind = "markChatAsRead"
           /\ Moves(t))
          => \A m \in MsgIds :
                msgs'[m] # msgs[m]
                => /\ msgs[m] # NoMsg
                   /\ msgs[m].chatId = getChatId(task[t].user, task[t].peer)]_vars

C16_Witness ==
  \E m, n \in MsgIds, t \in Tasks :
     /\ Exists(m) /\ Exists(n)
     /\ msgs[m].chatId = getChatId(UA, UB)
     /\ ~msgs[m].isRead
     /\ msgs[n].chatId = getChatId(UA, UC)
     /\ msgs[n].isRead
     /\ Running(t, "markMessageAsRead", "find")
     /\ task[t].user = UC
     /\ task[t].mid = m

\* C17: the delete of clearChat(U, V) removes every message that has the
\* chat id of U and V at that moment and leaves every other message as it
\* was.
C17_ClearChatFrame ==
  [][\A t \in Tasks :
       (Running(t, "clearChat", "delete") /\ Moves(t))
       => \A m \in MsgIds :
             IF msgs[m] # NoMsg
                /\ msgs[m].chatId = getChatId(task[t].user, task[t].peer)
             THEN msgs'[m] = NoMsg
             ELSE msgs'[m] = msgs[m]]_vars

C17_Witness ==
  \E m, n \in MsgIds :
     /\ m < nextMsgId /\ ~Exists(m)
     /\ Exists(n)
     /\ msgs[n].chatId = getChatId(UA, UC)
     /\ \E e \in emitted : /\ e.ev = "chatClearSuccess"
                           /\ e.chat = getChatId(UA, UB)
     /\ \E e \in emitted : /\ e.ev = "chatCleared"
                           /\ e.chat = getChatId(UA, UB)

\* C18: every message that was in a conversation, or was sent into it, while
\* a participant's incognito setting was enabled and unexpired is gone once
\* more than one sweep interval has passed since that setting's expiresAt.
C18_GoneOneSweepAfterExpiry ==
  \A c \in covered : msgs[c.mid] # NoMsg => now <= c.by + SweepEvery

SweepSaved == SweepSave /\ sweep.user \notin sweep.stale

NoDeletedNoError(evs) ==
  \A e \in evs : e.ev \notin {"messageDeleted", "chatClearError",
                              "incognitoError", "sendMessageError", "error"}

C22_AlreadyGoneIsQuiet ==
  [][/\ \A x \in timers :
          (msgs[x.mid] = NoMsg /\ TimerDelete(x)) =>
             /\ emitted' = {}
             /\ UNCHANGED <<storeVars, incognitoChats, sweep, connVars, task>>
     /\ (SweepDelete /\ MsgsOfChat(Head(sweep.chats)) = {}) =>
          /\ msgs' = msgs
          /\ NoDeletedNoError(emitted')
          /\ sweep'.pc \in {"delete", "save"}
     /\ \A t \in Tasks :
          (ClearDelete(t) /\ MsgsOfChat(task[t].chatId) = {}) =>
             /\ msgs' = msgs
             /\ NoDeletedNoError(emitted')
             /\ \E e \in emitted' : e.ev = "chatClearSuccess" /\ e.to = task[t].sock
    ]_vars

\* The sweep has just emptied the conversation and told UA's connection,
\* which is in the room; the deletion timer of a message it removed is due.
C22_Witness ==
  /\ getChatId(UA, UB) \in rooms[userSockets[UA]]
  /\ \E e \in emitted : e.ev = "chatCleared" /\ e.tag = "incognito_expired"
  /\ \E x \in timers :
        /\ x.at <= now
        /\ msgs[x.mid] = NoMsg
        /\ \E k \in covered : k.mid = x.mid

\* C23: an accepted disable removes the caller's setting for the
\* conversation and nothing else: no scheduled deletion is cancelled, and a
\* scheduled deletion leaves the schedule only by firing, no earlier and no
\* later than the interval it was computed for, after which its message is
\* gone.
C23_DisableKeepsDeletions ==
  [][/\ \A t \in Tasks :
          (/\ Running(t, "toggleIncognito", "userSave")
           /\ ~task[t].enabled /\ ~task[t].stale
           /\ ToggleSave(t)) =>
             /\ incognitoChats' =
                  [incognitoChats EXCEPT
                     ![task[t].user] = Without(@, task[t].chatId)]
             /\ timers' = timers
             /\ msgs' = msgs
     /\ \A x \in timers :
          x \notin timers' => (x.at = now /\ msgs'[x.mid] = NoMsg)
     /\ \A x \in timers' : x.at >= now'
    ]_vars

\* UA has just disabled incognito: the record holds no setting, both
\* connections are told, and the deletion scheduled for UA's message while
\* the setting was enabled is still pending for its expiry.
C23_Witness ==
  /\ incognitoChats[UA] = {}
  /\ \E e \in emitted : e.ev = "incognitoDisabled" /\ e.to = userSockets[UB]
  /\ \E x \in timers : msgs[x.mid] # NoMsg /\ x.at > now

\* C24: when sendMessage has read the sender's incognito status, a deletion
\* of the message it persisted is scheduled if and only if the sender's own
\* setting for the conversation exists and is unexpired, and it is scheduled
\* for that setting's expiresAt; nothing else is scheduled.
C24_ScheduledIffSenderSetting ==
  [][\A t \in Tasks :
       (Running(t, "sendMessage", "incognito") /\ SendIncognito(t)) =>
          LET live == {x \in SettingsOf(incognitoChats[task[t].user], task[t].chatId) :
                         x.expiresAt > now}
          IN IF live = {}
             THEN timers' = timers
             ELSE \E x \in live :
                    timers' = timers \cup
                      {[mid |-> task[t].mid, chatId |-> task[t].chatId,
                        at |-> x.expiresAt]}
    ]_vars

\* C25: a user record never holds two settings for one conversation, and the
\* latest enable's setting is the one that remains: the save of the latest
\* enable puts its setting into the record, and the save of an earlier
\* enable does not take the latest enable's setting out of it.  (In
\* SpecTwice the long enable is the latest.)
C25_OnePerChatLatestRemains ==
  [][/\ \A u \in Users : \A x, y \in incognitoChats'[u] :
          x.chatId = y.chatId => x = y
     /\ \A t \in Tasks :
          (Running(t, "toggleIncognito", "userSave") /\ ToggleSave(t)) =>
             IF task[t].dur = LongDur
             THEN [chatId |-> task[t].chatId, expiresAt |-> task[t].at]
                     \in incognitoChats'[UA]
             ELSE \A x \in incognitoChats[UA] :
                     x.expiresAt > MaxDelay => x \in incognitoChats'[UA]
    ]_vars

\* C26: once a typing signal of S has reached P, P is owed a stopTyping for
\* S: while P stays connected, the auto-stop timer armed for it leaves the
\* pending timers only with a stopTyping for S delivered to P, or replaced
\* by a new auto-stop timer of S for P.
C26_StopTypingIsOwed ==
  [][\A x \in TypingTimers :
       (/\ x \notin timers'
        /\ sockState[x.rsock] = "ready" /\ sockState'[x.rsock] = "ready") =>
          \/ \E e \in emitted' :
                e.ev = "stopTyping" /\ e.to = x.rsock /\ e.user = x.user
          \/ \E y \in TypingTimers' : y.sock = x.sock /\ y.rsock = x.rsock
    ]_vars

\* C27: a connection has at most one pending auto-stop timer, and none once
\* its disconnect handler has run, so that no synthetic stopTyping is
\* emitted for it after its disconnect.
C27_NoTimerAfterDisconnect ==
  \A s \in Sockets :
     /\ Cardinality({x \in TypingTimers : x.sock = s}) <= 1
     /\ sockState[s] = "closed" => \A x \in TypingTimers : x.sock # s

\* UA's disconnect handler has run up to its first await: the connection had
\* armed an auto-stop timer for UB, who is still connected, and the timer is
\* no longer pending.
C27_Witness ==
  /\ sockState[1] = "closed"
  /\ \E t \in Tasks : Running(t, "disconnect", "offline") /\ task[t].sock = 1
  /\ typingTimeout[1] # NoTimer
  /\ typingTimeout[1].rsock = 2
  /\ sockState[2] = "ready"
  /\ TypingTimers = {}

\* C28: for a conversation holding n messages and a cap k, the list of
\* loadMessages has min(k, n) entries in ascending order of creation time,
\* carries the current isDelivered/isRead flags, and holds the most recent
\* messages: no message left out is more recent than one in the list.  (The
\* handler's cap is LoadLimit; the query is checked for every cap the
\* conversations of the model can exceed.)
C28_ListIsMostRecent ==
  \A k \in 1..MaxMsgs :
     LET c == getChatId(UA, UB)
         L == ListByConversation(c, k)
         n == Cardinality(MsgsOfChat(c))
         ids == {L[i].mid : i \in 1..Len(L)}
     IN /\ Len(L) = IF n < k THEN n ELSE k
        /\ ids \subseteq MsgsOfChat(c)
        /\ \A i, j \in 1..Len(L) :
              i < j => msgs[L[i].mid].createdAt <= msgs[L[j].mid].createdAt
        /\ \A i \in 1..Len(L) :
              /\ L[i].isDelivered = msgs[L[i].mid].isDelivered
              /\ L[i].isRead = msgs[L[i].mid].isRead
        /\ \A m \in MsgsOfChat(c) \ ids : \A x \in ids :
              msgs[m].createdAt <= msgs[x].createdAt

\* C29: whenever sendMessage persists its message (Message.create), the
\* sender and the receiver are friends and neither has blocked the other at
\* that instant, whatever blockUser or removeFriend ran since the checks.
C29_PersistedOnlyBetweenFriends ==
  [][\A t \in Tasks :
        (Running(t, "sendMessage", "create") /\ SendCreate(t))
        => /\ areUsersFriends(task[t].user, task[t].peer)
           /\ areUsersFriends_OtherRecord(task[t].user, task[t].peer)
           /\ ~isUserBlocked(task[t].user, task[t].peer)
           /\ ~isUserBlocked(task[t].peer, task[t].user)]_vars

\* C30: when no handler is in flight, no message whose receiver has a
\* registry entry is persisted with isDelivered = false, also when the
\* sendMessage raced with the receiver's connection handler.
NoHandlerInFlight == \A t \in Tasks : task[t].kind = "none"

C30_QuiescentBoundMeansDelivered ==
  NoHandlerInFlight =>
    \A m \in MsgIds :
       (msgs[m] # NoMsg /\ userSockets[Receiver(m)] # NoSocket)
       => msgs[m].isDelivered

\* C31: every entry of the connection registry refers to a connection that
\* has not disconnected.
C31_RegistryEntriesAreLive ==
  \A u \in Users :
     userSockets[u] # NoSocket => sockState[userSockets[u]] # "closed"

\* C32: when no connection or disconnect handler is in flight, a user's
\* persisted isOnline flag is true exactly when the user has a registry
\* entry.
C32_OnlineIffBound ==
  NoHandlerInFlight =>
    \A u \in Users : isOnline[u] <=> userSockets[u] # NoSocket

\* C33: every message that is read is also delivered.
C33_ReadImpliesDelivered ==
  \A m \in MsgIds : (msgs[m] # NoMsg /\ msgs[m].isRead) => msgs[m].isDelivered

\* C34: a step that turns a message's isRead flag to true is the store
\* update of a markMessageAsRead or markChatAsRead handler whose user is a
\* participant of the conversation other than the message's sender.
C34_ReadOnlyByReceiver ==
  [][\A m \in MsgIds :
        (/\ msgs[m] # NoMsg /\ ~msgs[m].isRead
         /\ msgs'[m] # NoMsg /\ msgs'[m].isRead)
        => \E t \in Tasks :
              /\ task[t].kind \in {"markMessageAsRead", "markChatAsRead"}
              /\ MarkUpdate(t) \/ ChatReadUpdate(t)
              /\ isUserInChat(msgs[m].chatId, task[t].user)
              /\ task[t].user # msgs[m].sender]_vars

\* C35: a room broadcast of a conversation reaches only connections whose
\* authenticated user is one of the conversation's two participants.
RoomBroadcasts ==
  {"receiveMessage", "messageRead", "chatRead", "chatCleared", "messageDeleted"}

C35_RoomEventsOnlyToParticipants ==
  \A e \in emitted :
     (e.ev \in RoomBroadcasts /\ e.chat # NoChat)
     => isUserInChat(e.chat, sockUser[e.to])

\* C36: once a setting has expired and nothing is in flight (no handler, no
\* sweep pass, no pending deletion), a message that was in the conversation
\* while the setting was enabled and unexpired is still there only if some
\* participant's record still holds a setting of that conversation: no
\* setting has disappeared on expiry with such a message left in place.
C36_NoExpiredSettingGoneWithMessagesLeft ==
  (NoHandlerInFlight /\ sweep.pc = "idle" /\ timers = {})
  => \A c \in covered :
        (msgs[c.mid] # NoMsg /\ c.by <= now)
        => \E u \in Users :
              SettingsOf(incognitoChats[u], msgs[c.mid].chatId) # {}

\* C37: when no handler is in flight the friend relation is symmetric.
C37_FriendsSymmetricAtRest ==
  NoHandlerInFlight =>
    \A a, b \in Users : b \in friends[a] <=> a \in friends[b]

\* C38: when no handler is in flight, no two users are friends, in either
\* direction, while one of them has the other in its blocked set.
C38_NoFriendshipAcrossBlock ==
  NoHandlerInFlight =>
    \A a, b \in Users :
       (b \in friends[a] \/ a \in friends[b])
       => (b \notin blockedUsers[a] /\ a \notin blockedUsers[b])

\* C39: the status of a chat request changes only from pending and only in
\* a step of a handler run by the request's receiver; a step of an
\* acceptChatRequest handler whose request was not pending when the handler
\* read it adds no friendship; a handler that finds the caller
\* is not the receiver (accept, reject) or not the sender (cancel) answers
\* chatRequestError and changes neither the requests nor the user records.
C39_StatusOnlyFromPendingByReceiver ==
  [][/\ \A r \in RequestIds :
          (/\ chatRequests[r] # NoRequest /\ chatRequests'[r] # NoRequest
           /\ chatRequests'[r].status # chatRequests[r].status)
          => /\ chatRequests[r].status = "pending"
             /\ \E t \in Tasks : /\ task[t].requestId = r
                                 /\ task[t].user = chatRequests[r].receiver
                                 /\ AcceptSave(t) \/ RejectSave(t)
     /\ \A t \in Tasks :
          (task[t].kind = "acceptChatRequest" /\ task[t].status # "pending"
           /\ (AcceptOwn(t) \/ AcceptOther(t)))
          => friends' = friends
     /\ \A t \in Tasks :
          (/\ task[t].pc = "find"
           /\ chatRequests[task[t].requestId] # NoRequest
           /\ \/ /\ task[t].kind \in {"acceptChatRequest", "rejectChatRequest"}
                 /\ chatRequests[task[t].requestId].receiver # task[t].user
                 /\ RequestFind(t, task[t].kind)
              \/ /\ task[t].kind = "cancelChatRequest"
                 /\ chatRequests[task[t].requestId].sender # task[t].user
                 /\ CancelFind(t))
          => /\ task'[t] = IdleTask
             /\ \E e \in emitted' : e.ev = "chatRequestError" /\ e.to = task[t].sock
             /\ UNCHANGED <<chatRequests, friends, blockedUsers>>]_vars

\* C40: there is at most one pending chat request per unordered pair of
\* users, and none between two users who are friends.
C40_OnePendingPerPair ==
  \A a, b \in Users :
     /\ Cardinality(PendingBetween(a, b)) <= 1
     /\ (b \in friends[a]) => PendingBetween(a, b) = {}

====
